---- MODULE Spec2Model ----
(***************************************************************************)
(* Model of the MPC two-party signing enclave: the request dispatcher      *)
(* (enclave/index.ts), the mock protocol engine and the SessionManager     *)
(* (mpc-protocol.ts) and the KeyStore backends (keystore.ts).              *)
(*                                                                         *)
(* Strings that are searched for substrings (error messages, account ids)  *)
(* are sequences of tokens; String.includes(code) is "some token is code". *)
(* Random 128/256-bit draws (session ids, account ids, private keys) are   *)
(* fresh values taken from counters: collisions are not modelled.          *)
(***************************************************************************)
EXTENDS Integers, Sequences, FiniteSets, TLC

\* ------------------------------------------------------------- bounds
MaxSessions == 2
MaxAccounts == 1
Tick == 300000
MaxNow == 600000
MaxBufferTokens == 4
MaxConnections == 2
MaxDrivenAccounts == 2
MaxCalls == 2

\* ------------------------------------------------- program constants
SessionTimeoutMs == 300000
DkgMaxRounds == 3
SignMaxRounds == 2
DigestLength == 32
PartialLength == 65
MaxBufferedSize == 100000

VARIABLES
  backend,      \* "file" | "memory": createKeyStore's choice (KEYSTORE_TYPE)
  now,          \* Date.now()
  sessions,     \* SessionManager.sessions: Map<sessionId, MPCSessionState>
  shards,       \* KeyStore: accountId -> server shard
  metadata,     \* KeyStore: accountId -> AccountMetadata
  nextSession,  \* number of session ids drawn so far, plus one
  nextAccount,  \* number of account ids drawn so far, plus one
  nextKey,      \* number of private keys drawn so far, plus one
  issued,       \* history: sessionId -> expiresAt, for every sessionId a start returned
  progress,     \* history: sessionId -> successful step responses, and DONE among them
  doneLog,      \* history: accountId -> address and public key of its DKG completion
  resp,         \* the connection being answered: the request, the server state
                \* it met and the response written; idle once it is closed
  conn,         \* handleConnection's socket, chunk by chunk: dataBuffer, the
                \* request decoded from it, what was written, the end timer
  calls         \* the createAccount/step handler calls in flight, each with the
                \* await it stands at and what it holds in its locals

vars == <<backend, now, sessions, shards, metadata, nextSession, nextAccount,
          nextKey, issued, progress, doneLog, resp, conn, calls>>

\* ------------------------------------------------------------ values
Undefined == "undefined"
NoAccountId == <<Undefined>>
NoAddress == [addrOf |-> 0]
NoPublicKeyHex == [hexOf |-> [pubOf |-> 0]]
NoServerMessage == [round |-> 0, type |-> Undefined]
NoPartial == [len |-> 0, key |-> 0, digest |-> Undefined]

\* generateAccountId: "acct-" followed by 32 hex digits
AccountIdOf(n) == <<"acct-", ToString(n)>>

\* account ids a caller may send besides the generated ones: the empty string,
\* a well-formed id no account has, a path-traversal id, and an id whose text
\* contains the name of an error code
BogusAccountIds ==
  { <<>>, <<"acct-", "ghost">>, <<"..", "/", "etc">>, <<"acct-", "INVALID_SESSION">> }

GeneratedAccountIds == { AccountIdOf(n) : n \in 1..MaxAccounts }

AccountIdInputs == GeneratedAccountIds \cup BogusAccountIds

\* the account ids sent to sign/start and recover/start
StartAccountIdInputs == GeneratedAccountIds \cup { <<>>, <<"acct-", "ghost">> }

\* the account ids sent to recover/start
RecoverAccountIdInputs == StartAccountIdInputs \cup { <<"acct-", "INVALID_SESSION">> }

\* body.clientMessage: absent, or the base64 text of some bytes. The bytes are
\* either no JSON at all, the JSON literal null, or a JSON object with optional
\* fields round (0 when the object has none), data and messageHash (a hex
\* string: "" is the empty string, "h32" a string of 64 hex digits).
Msg(p, j, d, h) ==
  [present |-> p, json |-> j, round |-> 0, data |-> d, messageHash |-> h]
MsgAbsent == Msg(FALSE, Undefined, Undefined, Undefined)
MsgGarbage == Msg(TRUE, "garbage", Undefined, Undefined)
MsgNull == Msg(TRUE, "null", Undefined, Undefined)
MsgData == Msg(TRUE, "object", "d1", Undefined)
MsgProof == Msg(TRUE, "object", "proof-1", Undefined)
MsgEmptyHash == Msg(TRUE, "object", Undefined, "")
MsgHash == Msg(TRUE, "object", Undefined, "h32")

\* the message a client builds for round r: { round: r, data: ... }
MsgRound(r) == [MsgData EXCEPT !.round = r]

\* the messages that differ for a step request, for sign/start and for
\* recover/start
StepMessages == { MsgAbsent, MsgGarbage, MsgNull, MsgData }
SignStartMessages == { MsgAbsent, MsgGarbage, MsgNull, MsgData, MsgEmptyHash, MsgHash }
RecoverStartMessages == { MsgAbsent, MsgGarbage, MsgNull, MsgData, MsgProof }

SessionIdInputs == 0..MaxSessions

\* body.label of a createAccount/step request
Labels == { "main" }

StepEndpoints == { "createAccount/step", "sign/step", "recover/step" }

\* ------------------------------------------------------ Map helpers
MapSet(m, k, v) == [x \in (DOMAIN m) \cup {k} |-> IF x = k THEN v ELSE m[x]]
MapDelete(m, k) == [x \in (DOMAIN m) \ {k} |-> m[x]]
EmptyMap == [x \in {} |-> 0]

\* ---------------------------------------------------- error taxonomy
Includes(msg, code) == \E i \in 1..Len(msg) : msg[i] = code

ErrorCodeOf(msg) ==
  IF Includes(msg, "INVALID_REQUEST") THEN "INVALID_REQUEST"
  ELSE IF Includes(msg, "INVALID_SESSION") THEN "INVALID_SESSION"
  ELSE IF Includes(msg, "ACCOUNT_NOT_FOUND") THEN "ACCOUNT_NOT_FOUND"
  ELSE IF Includes(msg, "KEYSTORE_ERROR") THEN "KEYSTORE_ERROR"
  ELSE IF Includes(msg, "MPC_ERROR") THEN "MPC_ERROR"
  ELSE IF Includes(msg, "SIGNING_ERROR") THEN "SIGNING_ERROR"
  ELSE IF Includes(msg, "RECOVERY_FAILED") THEN "RECOVERY_FAILED"
  ELSE "INTERNAL_ERROR"

TypeErrorMsg == <<"TypeError">>
SyntaxErrorMsg == <<"SyntaxError">>

\* ------------------------------------------------- results of a call
NoData ==
  [status |-> Undefined, sessionId |-> 0, accountId |-> NoAccountId,
   address |-> NoAddress, publicKey |-> NoPublicKeyHex,
   serverMessage |-> NoServerMessage, serverPartial |-> NoPartial,
   accounts |-> {}]

Returned(v) == [threw |-> FALSE, err |-> <<>>, value |-> v]
Thrown(msg) == [threw |-> TRUE, err |-> msg, value |-> 0]

\* ---------------------------------------------------- byte conversions
\* Buffer.from(clientMessage, 'base64'): a TypeError when the field is absent,
\* the decoded bytes otherwise
BufferFromBase64(cm) ==
  IF ~cm.present THEN Thrown(TypeErrorMsg)
  ELSE Returned([json |-> cm.json, round |-> cm.round, data |-> cm.data,
                 messageHash |-> cm.messageHash])

\* Buffer.from(messageHash, 'hex'): a TypeError for undefined, else the bytes
BufferFromHex(h) ==
  IF h = Undefined THEN Thrown(TypeErrorMsg)
  ELSE Returned([len |-> IF h = "h32" THEN DigestLength ELSE 0, hex |-> h])

\* ethers: Wallet(key).address, Wallet(key).publicKey, hex of the public key
AddressOfKey(key) == [addrOf |-> key]
PublicKeyOfKey(key) == [pubOf |-> key]
HexOf(bytes) == [hexOf |-> bytes]

\* new Date().toISOString()
IsoOf(t) == [iso |-> t]
NoTimestamp == [iso |-> -1]

\* ------------------------------------------------ MockMPCProtocol
\* JSON.parse: a SyntaxError for bytes that are no JSON text
\* decodeMessage: JSON.parse of the bytes, any failure rethrown as MPC_ERROR
JsonParse(bytes) ==
  IF bytes.json = "garbage" THEN Thrown(SyntaxErrorMsg) ELSE Returned(bytes)

\* decodeMessage without its catch: the failure of JSON.parse as it is
DecodeMessage_NoCatch(bytes) == JsonParse(bytes)

DecodeMessage(bytes) ==
  IF JsonParse(bytes).threw
    THEN Thrown(<<"MPC_ERROR", ": Failed to decode message">>)
    ELSE JsonParse(bytes)

StartDKG(sessionId, key, t) ==
  [sessionState |->
     [sessionId |-> sessionId, protocol |-> "DKG", round |-> 1,
      accountId |-> NoAccountId,
      internalState |->
        [fullPrivateKey |-> key, currentRound |-> 1, maxRounds |-> DkgMaxRounds,
         clientCommitment |-> Undefined, clientShare |-> Undefined],
      createdAt |-> t, expiresAt |-> t + SessionTimeoutMs],
   serverMessage |-> [round |-> 1, type |-> "dkg_commitment"]]

StepDKG(sessionState, bytes) ==
  IF sessionState.protocol # "DKG"
    THEN Thrown(<<"MPC_ERROR", ": Invalid protocol for DKG step">>)
  ELSE
  LET state == sessionState.internalState
      decoded == DecodeMessage(bytes)
  IN
  IF decoded.threw THEN decoded
  ELSE IF state.currentRound = 1 THEN
    \* clientMsg.data on the JSON value null is a TypeError
    IF decoded.value.json = "null" THEN Thrown(TypeErrorMsg)
    ELSE Returned(
      [sessionState |->
         [sessionState EXCEPT !.internalState =
            [state EXCEPT !.currentRound = 2,
                          !.clientCommitment = decoded.value.data]],
       done |-> FALSE,
       serverMessage |-> [round |-> 2, type |-> "dkg_share_commitment"],
       result |-> [serverShard |-> 0, publicKey |-> PublicKeyOfKey(0),
                   address |-> NoAddress]])
  ELSE IF state.currentRound = 2 THEN
    IF decoded.value.json = "null" THEN Thrown(TypeErrorMsg)
    ELSE Returned(
      [sessionState |->
         [sessionState EXCEPT !.internalState =
            [state EXCEPT !.currentRound = 3,
                          !.clientShare = decoded.value.data]],
       done |-> FALSE,
       serverMessage |-> [round |-> 3, type |-> "dkg_verification"],
       result |-> [serverShard |-> 0, publicKey |-> PublicKeyOfKey(0),
                   address |-> NoAddress]])
  ELSE IF state.currentRound = 3 THEN
    Returned(
      [sessionState |-> sessionState,
       done |-> TRUE,
       serverMessage |-> NoServerMessage,
       result |-> [serverShard |-> state.fullPrivateKey,
                   publicKey |-> PublicKeyOfKey(state.fullPrivateKey),
                   address |-> AddressOfKey(state.fullPrivateKey)]])
  ELSE Thrown(<<"MPC_ERROR", ": Invalid DKG round">>)

StartSign(sessionId, serverShard, messageHash, t) ==
  [sessionState |->
     [sessionId |-> sessionId, protocol |-> "SIGN", round |-> 1,
      accountId |-> NoAccountId,
      internalState |->
        [serverShard |-> serverShard, messageHash |-> messageHash,
         currentRound |-> 1, maxRounds |-> SignMaxRounds],
      createdAt |-> t, expiresAt |-> t + SessionTimeoutMs],
   serverMessage |-> [round |-> 1, type |-> "sign_nonce_commitment"]]

\* wallet.signingKey.sign(messageHash): ethers rejects a digest that is not
\* 32 bytes long ("invalid digest length", with the digest it was given in
\* the message); r, s and v make 65 bytes
SigningKeySign(serverShard, messageHash) ==
  IF messageHash.len # DigestLength
    THEN Thrown(<<"invalid digest length", ": value=", messageHash.hex>>)
  ELSE Returned([len |-> PartialLength, key |-> serverShard,
                 digest |-> messageHash.hex])

\* a signing step that hands out the session's internalState as its partial
\* (what C22 must tell from StepSign)
StepSign_LeakState(sessionState, bytes) ==
  Returned([sessionState |-> sessionState,
            done |-> TRUE,
            serverMessage |-> NoServerMessage,
            result |-> [serverPartial |-> sessionState.internalState]])

StepSign(sessionState, bytes) ==
  IF sessionState.protocol # "SIGN"
    THEN Thrown(<<"MPC_ERROR", ": Invalid protocol for signing step">>)
  ELSE
  LET state == sessionState.internalState
      decoded == DecodeMessage(bytes)
  IN
  IF decoded.threw THEN decoded
  ELSE IF state.currentRound = 1 THEN
    LET signature == SigningKeySign(state.serverShard, state.messageHash) IN
    IF signature.threw THEN signature
    ELSE Returned(
      [sessionState |-> sessionState,
       done |-> TRUE,
       serverMessage |-> NoServerMessage,
       result |-> [serverPartial |-> signature.value]])
  ELSE Thrown(<<"MPC_ERROR", ": Invalid signing round">>)

\* startRecover: the mock verifies nothing ("verified: true, // Mock: auto-verify")
\* a startRecover that asks for a further round instead of completing
StartRecover_NotDone(sessionId, accountId, serverShard, bytes, t) ==
  LET decoded == DecodeMessage(bytes) IN
  IF decoded.threw THEN decoded
  ELSE IF decoded.value.json = "null" THEN Thrown(TypeErrorMsg)
  ELSE Returned(
    [sessionState |->
       [sessionId |-> sessionId, protocol |-> "RECOVER", round |-> 1,
        accountId |-> accountId,
        internalState |->
          [serverShard |-> serverShard, clientChallenge |-> decoded.value.data,
           verified |-> TRUE],
        createdAt |-> t, expiresAt |-> t + SessionTimeoutMs],
     done |-> FALSE,
     serverMessage |-> NoServerMessage,
     result |-> [verified |-> TRUE, address |-> AddressOfKey(serverShard)]])

StartRecover(sessionId, accountId, serverShard, bytes, t) ==
  LET decoded == DecodeMessage(bytes) IN
  IF decoded.threw THEN decoded
  ELSE IF decoded.value.json = "null" THEN Thrown(TypeErrorMsg)
  ELSE Returned(
    [sessionState |->
       [sessionId |-> sessionId, protocol |-> "RECOVER", round |-> 1,
        accountId |-> accountId,
        internalState |->
          [serverShard |-> serverShard, clientChallenge |-> decoded.value.data,
           verified |-> TRUE],
        createdAt |-> t, expiresAt |-> t + SessionTimeoutMs],
     done |-> TRUE,
     serverMessage |-> NoServerMessage,
     result |-> [verified |-> TRUE, address |-> AddressOfKey(serverShard)]])

StepRecover(sessionState, bytes) ==
  Thrown(<<"MPC_ERROR", ": Recovery should complete in startRecover">>)

\* ------------------------------------------------- SessionManager
Expired(session, t) == t > session.expiresAt

\* a get that never looks at expiresAt (what C1 must tell from SessionGet)
SessionGet_NoExpiry(ss, sessionId, t) ==
  [found |-> sessionId \in DOMAIN ss, store |-> ss]

\* a get that reports an expired session absent and leaves it in the store
SessionGet_NoRemoval(ss, sessionId, t) ==
  [found |-> sessionId \in DOMAIN ss /\ ~Expired(ss[sessionId], t), store |-> ss]

\* get: the session found, if any (found = FALSE stands for undefined), and the
\* store after the lazy removal of an expired session
SessionGet(ss, sessionId, t) ==
  IF sessionId \in DOMAIN ss /\ Expired(ss[sessionId], t)
    THEN [found |-> FALSE, store |-> MapDelete(ss, sessionId)]
    ELSE [found |-> sessionId \in DOMAIN ss, store |-> ss]

\* an update that extends the deadline of the session it stores (what C20
\* must tell from SessionUpdate)
SessionUpdate_Refresh(ss, sessionState) ==
  MapSet(ss, sessionState.sessionId,
         [sessionState EXCEPT !.expiresAt = @ + SessionTimeoutMs])

SessionUpdate(ss, sessionState) == MapSet(ss, sessionState.sessionId, sessionState)

\* a delete that empties the store (what C21 must tell from SessionDelete)
SessionDelete_All(ss, sessionId) == EmptyMap

\* a delete that removes nothing (what C3 must tell from SessionDelete)
SessionDelete_Keep(ss, sessionId) == ss

SessionDelete(ss, sessionId) == MapDelete(ss, sessionId)

\* a cleanup that also removes the sessions whose deadline is the current time
SessionCleanup_AtDeadline(ss, t) ==
  [x \in { y \in DOMAIN ss : t < ss[y].expiresAt } |-> ss[x]]

\* a cleanup that removes nothing
SessionCleanup_Never(ss, t) == ss

SessionCleanup(ss, t) ==
  [x \in { y \in DOMAIN ss : ~Expired(ss[y], t) } |-> ss[x]]

\* --------------------------------------------------------- KeyStore
\* FileSealedKeyStore.validateAccountId; InMemoryKeyStore validates nothing
InvalidAccountIdFormat(accountId) ==
  \/ accountId = <<>>
  \/ Includes(accountId, "/")
  \/ Includes(accountId, "\\")
  \/ Includes(accountId, "..")

KeyStoreRejects(be, accountId) == be = "file" /\ InvalidAccountIdFormat(accountId)

InvalidFormatMsg == <<"INVALID_REQUEST", ": Invalid accountId format">>

\* an I/O operation fails only on the file backend
IoFails(be, fault, op) == be = "file" /\ fault = op

KeyStoreHas(be, sh, accountId) ==
  IF KeyStoreRejects(be, accountId) THEN Thrown(InvalidFormatMsg)
  ELSE Returned(accountId \in DOMAIN sh)

PersistServerShard(be, sh, accountId, serverShard, fault) ==
  IF KeyStoreRejects(be, accountId) THEN Thrown(InvalidFormatMsg)
  ELSE IF IoFails(be, fault, "persistShard")
    THEN Thrown(<<"KEYSTORE_ERROR", ": Failed to persist shard for ">>
                \o accountId \o <<": ", "EIO">>)
  ELSE Returned(MapSet(sh, accountId, serverShard))

LoadServerShard(be, sh, accountId, fault) ==
  IF KeyStoreRejects(be, accountId) THEN Thrown(InvalidFormatMsg)
  ELSE IF accountId \notin DOMAIN sh
    THEN Thrown(<<"ACCOUNT_NOT_FOUND", ": No shard found for ">> \o accountId)
  ELSE IF IoFails(be, fault, "loadShard")
    THEN Thrown(<<"KEYSTORE_ERROR", ": Failed to load shard for ">>
                \o accountId \o <<": ", "EIO">>)
  ELSE Returned(sh[accountId])

PersistAccountMetadata(be, md, accountId, meta, fault) ==
  IF KeyStoreRejects(be, accountId) THEN Thrown(InvalidFormatMsg)
  ELSE IF IoFails(be, fault, "persistMetadata")
    THEN Thrown(<<"KEYSTORE_ERROR", ": Failed to persist metadata for ">>
                \o accountId \o <<": ", "EIO">>)
  ELSE Returned(MapSet(md, accountId, meta))

\* the content of a <accountId>.meta.json file that is no JSON text (a damaged
\* or half-written file); the in-memory Map holds objects and has no such entry
CorruptedMetadata ==
  [accountId |-> NoAccountId, address |-> NoAddress, publicKey |-> NoPublicKeyHex,
   label |-> "corrupted", createdAt |-> NoTimestamp, lastUsedAt |-> NoTimestamp]

LoadAccountMetadata(be, md, accountId, fault) ==
  IF KeyStoreRejects(be, accountId) THEN Thrown(InvalidFormatMsg)
  ELSE IF accountId \notin DOMAIN md
    THEN Thrown(<<"ACCOUNT_NOT_FOUND", ": No metadata found for ">> \o accountId)
  ELSE IF IoFails(be, fault, "loadMetadata")
    THEN Thrown(<<"KEYSTORE_ERROR", ": Failed to load metadata for ">>
                \o accountId \o <<": ", "EIO">>)
  ELSE IF be = "file" /\ md[accountId] = CorruptedMetadata
    THEN Thrown(<<"KEYSTORE_ERROR", ": Failed to load metadata for ">>
                \o accountId \o <<": ", "SyntaxError">>)
  ELSE Returned(md[accountId])

\* a listing that gives up at the first entry that does not load (what C25
\* must tell from ListAccounts)
ListAccounts_FailFast(be, md, fault) ==
  IF \E a \in DOMAIN md : LoadAccountMetadata(be, md, a, fault).threw
    THEN Thrown(<<"KEYSTORE_ERROR", ": Failed to list accounts: ", "SyntaxError">>)
    ELSE Returned({ [accountId |-> md[a].accountId, address |-> md[a].address] :
                    a \in DOMAIN md })

\* listAccounts: the file backend reads the directory and loads every
\* *.meta.json, skipping the ones that fail to load; the memory backend maps
\* the values of its Map. The array is taken as the set of its entries.
ListAccounts(be, md, fault) ==
  IF be = "file"
    THEN IF IoFails(be, fault, "readdir")
      THEN Thrown(<<"KEYSTORE_ERROR", ": Failed to list accounts: ", "EIO">>)
      ELSE Returned({ [accountId |-> md[a].accountId, address |-> md[a].address] :
                      a \in { x \in DOMAIN md :
                                ~LoadAccountMetadata(be, md, x, fault).threw } })
    ELSE Returned({ [accountId |-> md[a].accountId, address |-> md[a].address] :
                    a \in DOMAIN md })

\* ------------------------------------------------ endpoint handlers
\* st: the server state a handler reads and writes
\*   [backend, ss (sessions), sh (shards), md (metadata), ns, na, nk (counters)]
\* rq: the request body [sessionId, accountId, clientMessage, label], and
\*   fault, the KeyStore I/O operation that fails while it is handled
\* Each handler yields the state it leaves and what it returned or threw. A
\* handler begins by destructuring body: a request without body is a TypeError.
Outcome(st, out) == [st |-> st, out |-> out]

SessionNotFoundMsg == <<"INVALID_SESSION", ": Session not found or expired">>

\* a step handler without its protocol check (what C2 must tell from
\* WrongProtocol)
WrongProtocol_Never(sessionState, protocol) == FALSE

\* sessionState.protocol !== 'DKG' (or 'SIGN', or 'RECOVER') in a step handler
WrongProtocol(sessionState, protocol) == sessionState.protocol # protocol

AccountNotFoundMsg(accountId) ==
  <<"ACCOUNT_NOT_FOUND", ": Account ">> \o accountId \o <<" not found">>

\* handleHealth: status, timestamp, mockMode, enclave
HandleHealth(st, rq, t) ==
  Outcome(st, Returned([NoData EXCEPT !.status = "healthy"]))

HandleCreateAccountStart(st, rq, t) ==
  IF ~rq.present THEN Outcome(st, Thrown(TypeErrorMsg))
  ELSE
  LET started == StartDKG(st.ns, st.nk, t) IN
  Outcome([st EXCEPT !.ss = SessionUpdate(@, started.sessionState),
                     !.ns = @ + 1, !.nk = @ + 1],
          Returned([NoData EXCEPT !.sessionId = started.sessionState.sessionId,
                                  !.serverMessage = started.serverMessage]))

\* a terminal branch that removes the session before it persists anything
\* (what C12 must tell from CompleteCreateAccount)
CompleteCreateAccount_DeleteFirst(st, rq, t, result) ==
  LET accountId == AccountIdOf(st.na)
      st1 == [st EXCEPT !.na = @ + 1, !.ss = SessionDelete(@, rq.sessionId)]
      p1 == PersistServerShard(st.backend, st1.sh, accountId,
                               result.serverShard, rq.fault)
  IN
  IF p1.threw THEN Outcome(st1, p1)
  ELSE
  LET st2 == [st1 EXCEPT !.sh = p1.value]
      meta == [accountId |-> accountId, address |-> result.address,
               publicKey |-> HexOf(result.publicKey), label |-> rq.label,
               createdAt |-> IsoOf(t), lastUsedAt |-> NoTimestamp]
      p2 == PersistAccountMetadata(st.backend, st2.md, accountId, meta, rq.fault)
  IN
  IF p2.threw THEN Outcome(st2, p2)
  ELSE Outcome([st2 EXCEPT !.md = p2.value],
               Returned([NoData EXCEPT !.sessionId = rq.sessionId,
                                       !.status = "DONE",
                                       !.accountId = accountId,
                                       !.address = result.address]))

\* the terminal branch of handleCreateAccountStep: account id, shard, metadata,
\* then the session's removal
CompleteCreateAccount(st, rq, t, result) ==
  LET accountId == AccountIdOf(st.na)
      st1 == [st EXCEPT !.na = @ + 1]
      p1 == PersistServerShard(st.backend, st1.sh, accountId,
                               result.serverShard, rq.fault)
  IN
  IF p1.threw THEN Outcome(st1, p1)
  ELSE
  LET st2 == [st1 EXCEPT !.sh = p1.value]
      meta == [accountId |-> accountId, address |-> result.address,
               publicKey |-> HexOf(result.publicKey), label |-> rq.label,
               createdAt |-> IsoOf(t), lastUsedAt |-> NoTimestamp]
      p2 == PersistAccountMetadata(st.backend, st2.md, accountId, meta, rq.fault)
  IN
  IF p2.threw THEN Outcome(st2, p2)
  ELSE Outcome([st2 EXCEPT !.md = p2.value,
                           !.ss = SessionDelete(@, rq.sessionId)],
               Returned([NoData EXCEPT !.sessionId = rq.sessionId,
                                       !.status = "DONE",
                                       !.accountId = accountId,
                                       !.address = result.address]))

\* a createAccount/step that drops the session it refuses: on a protocol
\* mismatch and on a failure of the Engine
HandleCreateAccountStep_DropOnReject(st, rq, t) ==
  IF ~rq.present THEN Outcome(st, Thrown(TypeErrorMsg))
  ELSE
  LET got == SessionGet(st.ss, rq.sessionId, t)
      st1 == [st EXCEPT !.ss = got.store]
      dropped == [st1 EXCEPT !.ss = SessionDelete(@, rq.sessionId)]
  IN
  IF ~got.found THEN Outcome(st1, Thrown(SessionNotFoundMsg))
  ELSE IF WrongProtocol(st.ss[rq.sessionId], "DKG")
    THEN Outcome(dropped, Thrown(<<"INVALID_SESSION", ": Session is not a DKG session">>))
  ELSE
  LET bytes == BufferFromBase64(rq.clientMessage) IN
  IF bytes.threw THEN Outcome(st1, bytes)
  ELSE
  LET result == StepDKG(st.ss[rq.sessionId], bytes.value) IN
  IF result.threw THEN Outcome(dropped, result)
  ELSE
  LET st2 == [st1 EXCEPT !.ss = SessionUpdate(@, result.value.sessionState)] IN
  IF result.value.done
    THEN CompleteCreateAccount(st2, rq, t, result.value.result)
    ELSE Outcome(st2, Returned([NoData EXCEPT !.sessionId = rq.sessionId,
                                              !.status = "CONTINUE",
                                              !.serverMessage = result.value.serverMessage]))

HandleCreateAccountStep(st, rq, t) ==
  IF ~rq.present THEN Outcome(st, Thrown(TypeErrorMsg))
  ELSE
  LET got == SessionGet(st.ss, rq.sessionId, t)
      st1 == [st EXCEPT !.ss = got.store]
  IN
  IF ~got.found THEN Outcome(st1, Thrown(SessionNotFoundMsg))
  ELSE IF WrongProtocol(st.ss[rq.sessionId], "DKG")
    THEN Outcome(st1, Thrown(<<"INVALID_SESSION", ": Session is not a DKG session">>))
  ELSE
  LET bytes == BufferFromBase64(rq.clientMessage) IN
  IF bytes.threw THEN Outcome(st1, bytes)
  ELSE
  LET result == StepDKG(st.ss[rq.sessionId], bytes.value) IN
  IF result.threw THEN Outcome(st1, result)
  ELSE
  LET st2 == [st1 EXCEPT !.ss = SessionUpdate(@, result.value.sessionState)] IN
  IF result.value.done
    THEN CompleteCreateAccount(st2, rq, t, result.value.result)
    ELSE Outcome(st2, Returned([NoData EXCEPT !.sessionId = rq.sessionId,
                                              !.status = "CONTINUE",
                                              !.serverMessage = result.value.serverMessage]))

HandleGetPublicKey(st, rq, t) ==
  IF ~rq.present THEN Outcome(st, Thrown(TypeErrorMsg))
  ELSE
  IF rq.accountId = <<>>
    THEN Outcome(st, Thrown(<<"INVALID_REQUEST", ": accountId is required">>))
  ELSE
  LET exists == KeyStoreHas(st.backend, st.sh, rq.accountId) IN
  IF exists.threw THEN Outcome(st, exists)
  ELSE IF ~exists.value THEN Outcome(st, Thrown(AccountNotFoundMsg(rq.accountId)))
  ELSE
  LET meta == LoadAccountMetadata(st.backend, st.md, rq.accountId, rq.fault) IN
  IF meta.threw THEN Outcome(st, meta)
  ELSE Outcome(st, Returned([NoData EXCEPT !.accountId = meta.value.accountId,
                                           !.address = meta.value.address,
                                           !.publicKey = meta.value.publicKey]))

HandleSignStart(st, rq, t) ==
  IF ~rq.present THEN Outcome(st, Thrown(TypeErrorMsg))
  ELSE
  IF rq.accountId = <<>>
    THEN Outcome(st, Thrown(<<"INVALID_REQUEST", ": accountId is required">>))
  ELSE
  LET exists == KeyStoreHas(st.backend, st.sh, rq.accountId) IN
  IF exists.threw THEN Outcome(st, exists)
  ELSE IF ~exists.value THEN Outcome(st, Thrown(AccountNotFoundMsg(rq.accountId)))
  ELSE
  LET serverShard == LoadServerShard(st.backend, st.sh, rq.accountId, rq.fault) IN
  IF serverShard.threw THEN Outcome(st, serverShard)
  ELSE IF ~rq.clientMessage.present
    THEN Outcome(st, Thrown(<<"INVALID_REQUEST",
                              ": clientMessage with messageHash required">>))
  ELSE
  LET clientMsg == JsonParse(BufferFromBase64(rq.clientMessage).value) IN
  IF clientMsg.threw THEN Outcome(st, clientMsg)
  ELSE IF clientMsg.value.json = "null" THEN Outcome(st, Thrown(TypeErrorMsg))
  ELSE
  LET messageHash == BufferFromHex(clientMsg.value.messageHash) IN
  IF messageHash.threw THEN Outcome(st, messageHash)
  ELSE
  LET started == StartSign(st.ns, serverShard.value, messageHash.value, t)
      sessionState == [started.sessionState EXCEPT !.accountId = rq.accountId]
  IN
  Outcome([st EXCEPT !.ss = SessionUpdate(@, sessionState), !.ns = @ + 1],
          Returned([NoData EXCEPT !.sessionId = sessionState.sessionId,
                                  !.serverMessage = started.serverMessage]))

\* a last-used update that writes the metadata back without its address (what
\* C6 must tell from TouchLastUsed)
TouchLastUsed_DropAddress(st, accountId, fault, t) ==
  LET meta == LoadAccountMetadata(st.backend, st.md, accountId, fault) IN
  IF meta.threw THEN st
  ELSE
  LET p == PersistAccountMetadata(st.backend, st.md, accountId,
                                  [meta.value EXCEPT !.lastUsedAt = IsoOf(t),
                                                     !.address = NoAddress], fault)
  IN IF p.threw THEN st ELSE [st EXCEPT !.md = p.value]

\* the "Update last used timestamp" block of handleSignStep: every failure in
\* it is swallowed
TouchLastUsed(st, accountId, fault, t) ==
  LET meta == LoadAccountMetadata(st.backend, st.md, accountId, fault) IN
  IF meta.threw THEN st
  ELSE
  LET p == PersistAccountMetadata(st.backend, st.md, accountId,
                                  [meta.value EXCEPT !.lastUsedAt = IsoOf(t)], fault)
  IN IF p.threw THEN st ELSE [st EXCEPT !.md = p.value]

\* a sign/step whose lastUsedAt update is not guarded by the try block and
\* comes before the session's removal
HandleSignStep_UpdateFatal(st, rq, t) ==
  IF ~rq.present THEN Outcome(st, Thrown(TypeErrorMsg))
  ELSE
  LET got == SessionGet(st.ss, rq.sessionId, t)
      st1 == [st EXCEPT !.ss = got.store]
  IN
  IF ~got.found THEN Outcome(st1, Thrown(SessionNotFoundMsg))
  ELSE IF WrongProtocol(st.ss[rq.sessionId], "SIGN")
    THEN Outcome(st1, Thrown(<<"INVALID_SESSION", ": Session is not a signing session">>))
  ELSE
  LET bytes == BufferFromBase64(rq.clientMessage) IN
  IF bytes.threw THEN Outcome(st1, bytes)
  ELSE
  LET result == StepSign(st.ss[rq.sessionId], bytes.value) IN
  IF result.threw THEN Outcome(st1, result)
  ELSE
  LET st2 == [st1 EXCEPT !.ss = SessionUpdate(@, result.value.sessionState)]
      accountId == st.ss[rq.sessionId].accountId
      meta == LoadAccountMetadata(st.backend, st.md, accountId, rq.fault)
  IN
  IF meta.threw THEN Outcome(st2, meta)
  ELSE
  LET p == PersistAccountMetadata(st.backend, st.md, accountId,
                                  [meta.value EXCEPT !.lastUsedAt = IsoOf(t)],
                                  rq.fault)
  IN
  IF p.threw THEN Outcome(st2, p)
  ELSE Outcome([st2 EXCEPT !.md = p.value, !.ss = SessionDelete(@, rq.sessionId)],
               Returned([NoData EXCEPT !.sessionId = rq.sessionId,
                                       !.status = "DONE",
                                       !.serverPartial = result.value.result.serverPartial]))

HandleSignStep(st, rq, t) ==
  IF ~rq.present THEN Outcome(st, Thrown(TypeErrorMsg))
  ELSE
  LET got == SessionGet(st.ss, rq.sessionId, t)
      st1 == [st EXCEPT !.ss = got.store]
  IN
  IF ~got.found THEN Outcome(st1, Thrown(SessionNotFoundMsg))
  ELSE IF WrongProtocol(st.ss[rq.sessionId], "SIGN")
    THEN Outcome(st1, Thrown(<<"INVALID_SESSION", ": Session is not a signing session">>))
  ELSE
  LET bytes == BufferFromBase64(rq.clientMessage) IN
  IF bytes.threw THEN Outcome(st1, bytes)
  ELSE
  LET result == StepSign(st.ss[rq.sessionId], bytes.value) IN
  IF result.threw THEN Outcome(st1, result)
  ELSE
  LET st2 == [st1 EXCEPT !.ss = SessionUpdate(@, result.value.sessionState)] IN
  IF result.value.done
    THEN
      LET st3 == [st2 EXCEPT !.ss = SessionDelete(@, rq.sessionId)] IN
      Outcome(TouchLastUsed(st3, st.ss[rq.sessionId].accountId, rq.fault, t),
              Returned([NoData EXCEPT !.sessionId = rq.sessionId,
                                      !.status = "DONE",
                                      !.serverPartial = result.value.result.serverPartial]))
    ELSE Outcome(st2, Returned([NoData EXCEPT !.sessionId = rq.sessionId,
                                              !.status = "CONTINUE",
                                              !.serverMessage = result.value.serverMessage]))

HandleRecoverStart(st, rq, t) ==
  IF ~rq.present THEN Outcome(st, Thrown(TypeErrorMsg))
  ELSE
  IF rq.accountId = <<>> \/ ~rq.clientMessage.present
    THEN Outcome(st, Thrown(<<"INVALID_REQUEST",
                              ": accountId and clientMessage required">>))
  ELSE
  LET exists == KeyStoreHas(st.backend, st.sh, rq.accountId) IN
  IF exists.threw THEN Outcome(st, exists)
  ELSE IF ~exists.value THEN Outcome(st, Thrown(AccountNotFoundMsg(rq.accountId)))
  ELSE
  LET serverShard == LoadServerShard(st.backend, st.sh, rq.accountId, rq.fault) IN
  IF serverShard.threw THEN Outcome(st, serverShard)
  ELSE
  LET result == StartRecover(st.ns, rq.accountId, serverShard.value,
                             BufferFromBase64(rq.clientMessage).value, t)
  IN
  IF result.threw THEN Outcome(st, result)
  ELSE IF result.value.done
    THEN IF result.value.result.verified
      THEN Outcome([st EXCEPT !.ns = @ + 1],
                   Returned([NoData EXCEPT
                               !.sessionId = result.value.sessionState.sessionId,
                               !.status = "DONE",
                               !.address = result.value.result.address]))
      ELSE Outcome([st EXCEPT !.ns = @ + 1],
                   Thrown(<<"RECOVERY_FAILED", ": Client shard verification failed">>))
  ELSE Outcome([st EXCEPT !.ss = SessionUpdate(@, result.value.sessionState),
                          !.ns = @ + 1],
               Returned([NoData EXCEPT
                           !.sessionId = result.value.sessionState.sessionId,
                           !.status = "CONTINUE",
                           !.serverMessage = result.value.serverMessage]))

\* a recover/step that decodes the client message before it looks the session
\* up (what C4 must tell from HandleRecoverStep)
HandleRecoverStep_DecodeFirst(st, rq, t) ==
  IF ~rq.present THEN Outcome(st, Thrown(TypeErrorMsg))
  ELSE
  LET bytes == BufferFromBase64(rq.clientMessage)
      got == SessionGet(st.ss, rq.sessionId, t)
      st1 == [st EXCEPT !.ss = got.store]
  IN
  IF bytes.threw THEN Outcome(st, bytes)
  ELSE IF ~got.found THEN Outcome(st1, Thrown(SessionNotFoundMsg))
  ELSE IF WrongProtocol(st.ss[rq.sessionId], "RECOVER")
    THEN Outcome(st1, Thrown(<<"INVALID_SESSION", ": Session is not a recovery session">>))
  ELSE Outcome(st1, StepRecover(st.ss[rq.sessionId], bytes.value))

HandleRecoverStep(st, rq, t) ==
  IF ~rq.present THEN Outcome(st, Thrown(TypeErrorMsg))
  ELSE
  LET got == SessionGet(st.ss, rq.sessionId, t)
      st1 == [st EXCEPT !.ss = got.store]
  IN
  IF ~got.found THEN Outcome(st1, Thrown(SessionNotFoundMsg))
  ELSE IF WrongProtocol(st.ss[rq.sessionId], "RECOVER")
    THEN Outcome(st1, Thrown(<<"INVALID_SESSION", ": Session is not a recovery session">>))
  ELSE
  LET bytes == BufferFromBase64(rq.clientMessage) IN
  IF bytes.threw THEN Outcome(st1, bytes)
  ELSE Outcome(st1, StepRecover(st.ss[rq.sessionId], bytes.value))

\* processRequest: the switch over the endpoint
Route(endpoint, st, rq, t) ==
  CASE endpoint = "health" -> HandleHealth(st, rq, t)
    [] endpoint = "createAccount/start" -> HandleCreateAccountStart(st, rq, t)
    [] endpoint = "createAccount/step" -> HandleCreateAccountStep(st, rq, t)
    [] endpoint = "getPublicKey" -> HandleGetPublicKey(st, rq, t)
    [] endpoint = "sign/start" -> HandleSignStart(st, rq, t)
    [] endpoint = "sign/step" -> HandleSignStep(st, rq, t)
    [] endpoint = "recover/start" -> HandleRecoverStart(st, rq, t)
    [] endpoint = "recover/step" -> HandleRecoverStep(st, rq, t)
    [] OTHER -> Outcome(st, Thrown(<<"Unknown endpoint: ", endpoint>>))

\* processRequest: the response envelope for what the handler returned or threw
Envelope(out) ==
  IF out.threw
    THEN [success |-> FALSE, code |-> ErrorCodeOf(out.err), message |-> out.err,
          data |-> NoData]
    ELSE [success |-> TRUE, code |-> Undefined, message |-> <<>>,
          data |-> out.value]

\* ------------------------------------------------------------ actions
StartEndpoints == { "createAccount/start", "sign/start", "recover/start" }

ServerState ==
  [backend |-> backend, ss |-> sessions, sh |-> shards, md |-> metadata,
   ns |-> nextSession, na |-> nextAccount, nk |-> nextKey]

Request(sessionId, accountId, clientMessage, label, fault) ==
  [present |-> TRUE, sessionId |-> sessionId, accountId |-> accountId,
   clientMessage |-> clientMessage, label |-> label, fault |-> fault]

\* a request object that has no body member
NoBody ==
  [Request(0, NoAccountId, MsgAbsent, Undefined, "none") EXCEPT !.present = FALSE]

InitServerState ==
  [backend |-> "none", ss |-> EmptyMap, sh |-> EmptyMap, md |-> EmptyMap,
   ns |-> 1, na |-> 1, nk |-> 1]

Idle ==
  [endpoint |-> "none",
   rq |-> Request(0, NoAccountId, MsgAbsent, Undefined, "none"),
   pre |-> InitServerState,
   success |-> TRUE, code |-> Undefined, message |-> <<>>, data |-> NoData]

\* the history kept of a response: the session ids handed out, the steps that
\* succeeded, the accounts completed
IssuedAfter(endpoint, env, ss, t) ==
  IF endpoint \in StartEndpoints /\ env.success
    THEN MapSet(issued, env.data.sessionId,
                IF env.data.sessionId \in DOMAIN ss
                  THEN ss[env.data.sessionId].expiresAt
                  ELSE t + SessionTimeoutMs)
    ELSE issued

ProgressAfter(endpoint, rq, env) ==
  IF endpoint \in StepEndpoints /\ env.success /\ rq.sessionId \in DOMAIN progress
    THEN [progress EXCEPT ![rq.sessionId] =
            [steps |-> @.steps + 1,
             done |-> @.done + (IF env.data.status = "DONE" THEN 1 ELSE 0)]]
  ELSE IF endpoint \in StartEndpoints /\ env.success
    THEN MapSet(progress, env.data.sessionId, [steps |-> 0, done |-> 0])
  ELSE progress

DoneLogAfter(endpoint, rq, env, t) ==
  IF endpoint = "createAccount/step" /\ env.success /\ env.data.status = "DONE"
    THEN MapSet(doneLog, env.data.accountId,
                [sessionId |-> rq.sessionId,
                 address |-> env.data.address,
                 publicKey |->
                   StepDKG(sessions[rq.sessionId],
                           BufferFromBase64(rq.clientMessage).value).value.result.publicKey,
                 label |-> rq.label,
                 createdAt |-> IsoOf(t)])
    ELSE doneLog

\* one request, from the switch of processRequest to the response envelope,
\* while at most maxSessions session ids and maxAccounts account ids are drawn
HandleWithin(endpoint, rq, maxSessions, maxAccounts) ==
  LET outcome == Route(endpoint, ServerState, rq, now)
      env == Envelope(outcome.out)
  IN
  /\ outcome.st.ns <= maxSessions + 1
  /\ outcome.st.na <= maxAccounts + 1
  /\ sessions' = outcome.st.ss
  /\ shards' = outcome.st.sh
  /\ metadata' = outcome.st.md
  /\ nextSession' = outcome.st.ns
  /\ nextAccount' = outcome.st.na
  /\ nextKey' = outcome.st.nk
  /\ issued' = IssuedAfter(endpoint, env, outcome.st.ss, now)
  /\ progress' = ProgressAfter(endpoint, rq, env)
  /\ doneLog' = DoneLogAfter(endpoint, rq, env, now)
  /\ resp' = [endpoint |-> endpoint, rq |-> rq, pre |-> ServerState,
              success |-> env.success, code |-> env.code,
              message |-> env.message, data |-> env.data]
  /\ UNCHANGED <<backend, now, conn, calls>>

Handle(endpoint, rq) == HandleWithin(endpoint, rq, MaxSessions, MaxAccounts)

\* which KeyStore I/O operation of the request fails: "none", or one of ops on
\* the file backend (the memory backend does no I/O)
FaultsOf(ops) == IF backend = "file" THEN {"none"} \cup ops ELSE {"none"}

Health ==
  /\ resp = Idle
  /\ Handle("health", Request(0, NoAccountId, MsgAbsent, Undefined, "none"))

CreateAccountStart ==
  /\ resp = Idle
  /\ \E rq \in { Request(0, NoAccountId, MsgAbsent, Undefined, "none"), NoBody } :
       Handle("createAccount/start", rq)

CreateAccountStep ==
  /\ resp = Idle
  /\ \E sessionId \in SessionIdInputs, cm \in StepMessages, label \in Labels,
        fault \in FaultsOf({"persistShard", "persistMetadata"}) :
       Handle("createAccount/step", Request(sessionId, NoAccountId, cm, label, fault))

GetPublicKey ==
  /\ resp = Idle
  /\ \E accountId \in AccountIdInputs, fault \in FaultsOf({"loadMetadata"}) :
       Handle("getPublicKey", Request(0, accountId, MsgAbsent, Undefined, fault))

SignStart ==
  /\ resp = Idle
  /\ \E accountId \in StartAccountIdInputs, cm \in SignStartMessages,
        fault \in FaultsOf({"loadShard"}) :
       Handle("sign/start", Request(0, accountId, cm, Undefined, fault))

SignStep ==
  /\ resp = Idle
  /\ \E sessionId \in SessionIdInputs, cm \in StepMessages,
        fault \in FaultsOf({"loadMetadata", "persistMetadata"}) :
       Handle("sign/step", Request(sessionId, NoAccountId, cm, Undefined, fault))

RecoverStart ==
  /\ resp = Idle
  /\ \E accountId \in RecoverAccountIdInputs, cm \in RecoverStartMessages,
        fault \in FaultsOf({"loadShard"}) :
       Handle("recover/start", Request(0, accountId, cm, Undefined, fault))

RecoverStep ==
  /\ resp = Idle
  /\ \E sessionId \in SessionIdInputs, cm \in StepMessages :
       Handle("recover/step", Request(sessionId, NoAccountId, cm, Undefined, "none"))

\* the response is written, then the transport ends the connection
\* (setTimeout(() => socket.end(), 10)); the caller sends its next request on
\* a new connection
Close ==
  /\ resp # Idle
  /\ resp' = Idle
  /\ UNCHANGED <<backend, now, sessions, shards, metadata, nextSession,
                 nextAccount, nextKey, issued, progress, doneLog, conn, calls>>

\* setInterval(() => sessionManager.cleanup(), 60000), between two handlers
\* (resp records the run: the state the timer callback met)
Cleanup ==
  /\ resp = Idle
  /\ sessions' = SessionCleanup(sessions, now)
  /\ resp' = [Idle EXCEPT !.endpoint = "cleanup", !.pre = ServerState]
  /\ UNCHANGED <<backend, now, shards, metadata, nextSession, nextAccount,
                 nextKey, issued, progress, doneLog, conn, calls>>

\* the clock advances
Advance ==
  /\ resp = Idle
  /\ now + Tick <= MaxNow
  /\ now' = now + Tick
  /\ UNCHANGED <<backend, sessions, shards, metadata, nextSession, nextAccount,
                 nextKey, issued, progress, doneLog, resp, conn, calls>>

\* ------------------------------------------------------- transport
\* The text a peer sends is a sequence of tokens: "{" and "}", the members of
\* one request object ("endpoint", "body", "requestId"), the JSON literal
\* null, one whitespace character and a run of MaxBufferedSize - 2 whitespace
\* characters. A text that begins with "}" is one no further bytes complete.
Token(kind, req) == [kind |-> kind, req |-> req]

RequestIndexes == { 1, 2, 3 }

Tokens ==
  { Token(k, 0) : k \in { "{", "}", "space", "pad", "null" } }
    \cup { Token("members", k) : k \in RequestIndexes }

\* the request objects a peer sends: one that succeeds, one the Session
\* Manager or the Engine refuses, one the KeyStore lookup refuses
RequestOf(k) ==
  CASE k = 1 ->
         [isNull |-> FALSE, endpoint |-> "createAccount/start",
          body |-> Request(0, NoAccountId, MsgAbsent, Undefined, "none"),
          requestId |-> "r1"]
    [] k = 2 ->
         [isNull |-> FALSE, endpoint |-> "createAccount/step",
          body |-> Request(1, NoAccountId, MsgGarbage, "main", "none"),
          requestId |-> "r2"]
    [] k = 3 ->
         [isNull |-> FALSE, endpoint |-> "getPublicKey",
          body |-> Request(0, <<"acct-", "ghost">>, MsgAbsent, Undefined, "none"),
          requestId |-> Undefined]

\* the value of the text {}: an object without endpoint, body and requestId
EmptyRequest ==
  [isNull |-> FALSE, endpoint |-> Undefined,
   body |-> NoBody,
   requestId |-> Undefined]

NullRequest ==
  [isNull |-> TRUE, endpoint |-> Undefined,
   body |-> Request(0, NoAccountId, MsgAbsent, Undefined, "none"),
   requestId |-> Undefined]

\* dataBuffer.length
TokenLength(tok) ==
  CASE tok.kind = "pad" -> MaxBufferedSize - 2
    [] tok.kind = "members" -> 60
    [] tok.kind = "null" -> 4
    [] OTHER -> 1

RECURSIVE TextLength(_)
TextLength(text) ==
  IF text = <<>> THEN 0 ELSE TokenLength(Head(text)) + TextLength(Tail(text))

IsWhitespace(tok) == tok.kind \in { "space", "pad" }

WithoutWhitespace(text) == SelectSeq(text, LAMBDA tok : ~IsWhitespace(tok))

\* JSON.parse(dataBuffer): the value of a text that is one JSON value with
\* whitespace around and between its tokens, a SyntaxError for every other text
JsonParseBuffer(text) ==
  LET core == WithoutWhitespace(text) IN
  IF Len(core) = 3 /\ core[1].kind = "{" /\ core[2].kind = "members"
       /\ core[3].kind = "}"
    THEN Returned(RequestOf(core[2].req))
  ELSE IF Len(core) = 2 /\ core[1].kind = "{" /\ core[2].kind = "}"
    THEN Returned(EmptyRequest)
  ELSE IF Len(core) = 1 /\ core[1].kind = "null" THEN Returned(NullRequest)
  ELSE Thrown(SyntaxErrorMsg)

\* a response that drops the requestId of a failed request (what C19 must
\* tell from Respond)
Respond_NoEchoOnError(request, env) ==
  [success |-> env.success, code |-> env.code, message |-> env.message,
   data |-> env.data,
   requestId |-> IF env.success THEN request.requestId ELSE Undefined]

\* processRequest: the response object of either branch
Respond(request, env) ==
  [success |-> env.success, code |-> env.code, message |-> env.message,
   data |-> env.data,
   requestId |-> request.requestId]

\* processRequest(request) and the then / catch of handleConnection: the state
\* the handler leaves and the responses written. Destructuring null throws
\* before the try block, and the catch callback then throws on
\* request.requestId: nothing is written and no end timer is set.
ProcessRequest(st, request, t) ==
  IF request.isNull THEN [st |-> st, written |-> <<>>]
  ELSE
  LET outcome == Route(request.endpoint, st, request.body, t) IN
  [st |-> outcome.st, written |-> <<Respond(request, Envelope(outcome.out))>>]

\* the parse-error response of handleConnection: it has no requestId
ParseErrorResponse ==
  [success |-> FALSE, code |-> "INVALID_REQUEST",
   message |-> <<"Failed to parse request">>, data |-> NoData,
   requestId |-> Undefined]

NoConn ==
  [status |-> "none", dataBuffer |-> <<>>, request |-> NullRequest,
   dispatched |-> 0, written |-> <<>>, timer |-> FALSE,
   pre |-> InitServerState, connections |-> 0]

\* handleConnection: let dataBuffer = ''
NewConn(st, n) ==
  [NoConn EXCEPT !.status = "open", !.pre = st, !.connections = n]

\* socket.on('data'): the connection and the server state after one chunk
OnData(c, st, chunk, t) ==
  LET dataBuffer == c.dataBuffer \o chunk
      parsed == JsonParseBuffer(dataBuffer)
  IN
  IF ~parsed.threw
    THEN LET done == ProcessRequest(st, parsed.value, t) IN
         [conn |-> [c EXCEPT !.dataBuffer = dataBuffer,
                             !.request = parsed.value,
                             !.dispatched = @ + 1,
                             !.written = @ \o done.written,
                             !.timer = @ \/ done.written # <<>>],
          st |-> done.st]
  ELSE IF TextLength(dataBuffer) < MaxBufferedSize
    THEN [conn |-> [c EXCEPT !.dataBuffer = dataBuffer], st |-> st]
  ELSE [conn |-> [c EXCEPT !.dataBuffer = dataBuffer,
                           !.written = Append(@, ParseErrorResponse),
                           !.timer = TRUE],
        st |-> st]

\* the handler calls in flight: no call, with the locals a call will hold
\* (a local is kept for as long as the handler still reads it)
CallIds == 1..MaxCalls

NoCall ==
  [pc |-> "none", sessionId |-> 0, accountId |-> NoAccountId,
   done |-> FALSE, serverMessage |-> NoServerMessage,
   result |-> [serverShard |-> 0, publicKey |-> PublicKeyOfKey(0),
               address |-> NoAddress],
   after |-> EmptyMap, status |-> "none", code |-> Undefined]

Init ==
  /\ backend \in { "file", "memory" }
  /\ now = 0
  /\ sessions = EmptyMap
  /\ shards = EmptyMap
  /\ metadata = EmptyMap
  /\ nextSession = 1
  /\ nextAccount = 1
  /\ nextKey = 1
  /\ issued = EmptyMap
  /\ progress = EmptyMap
  /\ doneLog = EmptyMap
  /\ resp = Idle
  /\ conn = NoConn
  /\ calls = [p \in CallIds |-> NoCall]

Next ==
  \/ Health
  \/ CreateAccountStart
  \/ CreateAccountStep
  \/ GetPublicKey
  \/ SignStart
  \/ SignStep
  \/ RecoverStart
  \/ RecoverStep
  \/ Close
  \/ Cleanup
  \/ Advance

Spec == Init /\ [][Next]_vars

\* ------------------------------- sessions driven by clients, round by round
\* Two clients drive their sessions at the same time, each sending its steps
\* one after another: the requests of the two interleave in any order. The
\* step messages carry the round tag the client gives them.
RoundMessages == { MsgRound(r) : r \in 1..DkgMaxRounds } \cup { MsgGarbage }

DrivenAccountIds == { AccountIdOf(n) : n \in 1..MaxDrivenAccounts }

DriveCreateAccountStart ==
  /\ resp = Idle
  /\ HandleWithin("createAccount/start",
                  Request(0, NoAccountId, MsgAbsent, Undefined, "none"),
                  MaxSessions, MaxDrivenAccounts)

DriveCreateAccountStep ==
  /\ resp = Idle
  /\ \E sessionId \in 1..MaxSessions, cm \in RoundMessages, label \in Labels,
        fault \in FaultsOf({"persistShard", "persistMetadata"}) :
       HandleWithin("createAccount/step",
                    Request(sessionId, NoAccountId, cm, label, fault),
                    MaxSessions, MaxDrivenAccounts)

DriveSignStart ==
  /\ resp = Idle
  /\ \E accountId \in DrivenAccountIds :
       HandleWithin("sign/start", Request(0, accountId, MsgHash, Undefined, "none"),
                    MaxSessions, MaxDrivenAccounts)

DriveSignStep ==
  /\ resp = Idle
  /\ \E sessionId \in 1..MaxSessions, cm \in RoundMessages :
       HandleWithin("sign/step",
                    Request(sessionId, NoAccountId, cm, Undefined, "none"),
                    MaxSessions, MaxDrivenAccounts)

DriveNext ==
  \/ DriveCreateAccountStart
  \/ DriveCreateAccountStep
  \/ DriveSignStart
  \/ DriveSignStep
  \/ Close

DriveSpec == Init /\ [][DriveNext]_vars

\* ------------------------------------ the server left running: the sweep
\* The driven sessions while the clock advances and the cleanup timer fires.
\* The timer fires every minute whatever the requests do and the clock never
\* stops, but both are taken here between two handlers only, so they are
\* strongly fair; every connection answered is closed (the end timer).
SweepCreateAccountStep ==
  /\ resp = Idle
  /\ \E sessionId \in 1..MaxSessions,
        fault \in FaultsOf({"persistShard", "persistMetadata"}) :
       HandleWithin("createAccount/step",
                    Request(sessionId, NoAccountId, MsgData, Undefined, fault),
                    MaxSessions, MaxDrivenAccounts)

SweepSignStep ==
  /\ resp = Idle
  /\ \E sessionId \in 1..MaxSessions :
       HandleWithin("sign/step",
                    Request(sessionId, NoAccountId, MsgData, Undefined, "none"),
                    MaxSessions, MaxDrivenAccounts)

SweepNext ==
  \/ DriveCreateAccountStart
  \/ SweepCreateAccountStep
  \/ DriveSignStart
  \/ SweepSignStep
  \/ Close
  \/ Cleanup
  \/ Advance

SweepSpec ==
  /\ Init
  /\ [][SweepNext]_vars
  /\ WF_vars(Close)
  /\ SF_vars(Cleanup)
  /\ SF_vars(Advance)

\* --------------------------- createAccount/step handlers running together
\* Several connections have a createAccount/step in flight. A handler runs
\* without interruption from one await to the next. The await of stepDKG and
\* the awaits of the InMemoryKeyStore wait for a promise that is already
\* settled: the handler goes on in the microtask queue, before the event loop
\* delivers anything else. The awaits of the FileSealedKeyStore wait for
\* fs.writeFile: the event loop runs other handlers meanwhile.

\* every await handed back to the event loop (what C37 must tell from
\* RealSuspension)
RealSuspension_EveryAwait(be, pc) == TRUE

\* the awaits of handleCreateAccountStep at which other handlers get to run
RealSuspension(be, pc) ==
  be = "file" /\ pc \in { "persistShard", "persistMetadata" }

\* a call that stands at an await and goes on in the microtask queue
MicrotaskPending(call) ==
  /\ call.pc \in { "stepped", "persistShard", "persistMetadata" }
  /\ ~RealSuspension(backend, call.pc)

\* the event loop delivers a data event or an I/O completion to call p: no
\* other call is waiting in the microtask queue
MayRun(p) == \A q \in CallIds \ { p } : ~MicrotaskPending(calls[q])

\* handleCreateAccountStep down to the await of stepDKG: the lookup and the
\* Engine's round transition, which stepDKG assigns to the stored object
BeginCreateAccountStep(ss, rq, t) ==
  LET got == SessionGet(ss, rq.sessionId, t) IN
  IF ~got.found THEN [ss |-> got.store, out |-> Thrown(SessionNotFoundMsg)]
  ELSE IF WrongProtocol(ss[rq.sessionId], "DKG")
    THEN [ss |-> got.store,
          out |-> Thrown(<<"INVALID_SESSION", ": Session is not a DKG session">>)]
  ELSE
  LET bytes == BufferFromBase64(rq.clientMessage) IN
  IF bytes.threw THEN [ss |-> got.store, out |-> bytes]
  ELSE
  LET result == StepDKG(ss[rq.sessionId], bytes.value) IN
  IF result.threw THEN [ss |-> got.store, out |-> result]
  ELSE [ss |-> SessionUpdate(got.store, result.value.sessionState), out |-> result]

\* a data event carries a createAccount/step to a connection's handler
RaceBegin(p) ==
  /\ resp = Idle
  /\ calls[p].pc = "none"
  /\ MayRun(p)
  /\ \E sessionId \in 1..MaxSessions :
       LET rq == Request(sessionId, NoAccountId, MsgData, "main", "none")
           begun == BeginCreateAccountStep(sessions, rq, now)
       IN
       /\ sessions' = begun.ss
       /\ calls' = [calls EXCEPT ![p] =
            IF begun.out.threw
              THEN [NoCall EXCEPT !.pc = "responded", !.sessionId = sessionId,
                                  !.status = "error",
                                  !.code = Envelope(begun.out).code]
              ELSE [NoCall EXCEPT !.pc = "stepped", !.sessionId = sessionId,
                                  !.done = begun.out.value.done,
                                  !.serverMessage = begun.out.value.serverMessage,
                                  !.result = begun.out.value.result,
                                  !.after = begun.ss]]
  /\ UNCHANGED <<backend, now, shards, metadata, nextSession, nextAccount,
                 nextKey, issued, progress, doneLog, resp, conn>>

\* after the await of stepDKG: sessionManager.update with the object the
\* Engine returned (the stored one), then either the CONTINUE response or
\* generateAccountId and the call of persistServerShard
RaceResume(p) ==
  /\ calls[p].pc = "stepped"
  /\ MayRun(p)
  /\ LET sessionId == calls[p].sessionId IN
     /\ sessions' = IF sessionId \in DOMAIN sessions
                       THEN sessions
                       ELSE MapSet(sessions, sessionId, calls[p].after[sessionId])
     /\ IF calls[p].done
          THEN /\ nextAccount <= MaxDrivenAccounts
               /\ nextAccount' = nextAccount + 1
               /\ calls' = [calls EXCEPT ![p].pc = "persistShard",
                                          ![p].after = EmptyMap,
                                          ![p].accountId = AccountIdOf(nextAccount)]
               /\ UNCHANGED progress
          ELSE /\ calls' = [calls EXCEPT ![p] =
                              [NoCall EXCEPT !.pc = "responded",
                                             !.sessionId = sessionId,
                                             !.status = "CONTINUE"]]
               /\ progress' = [progress EXCEPT ![sessionId].steps = @ + 1]
               /\ UNCHANGED nextAccount
  /\ UNCHANGED <<backend, now, shards, metadata, nextSession, nextKey, issued,
                 doneLog, resp, conn>>

\* persistServerShard has written the shard: the metadata record is built and
\* persistAccountMetadata called
RacePersistShard(p) ==
  /\ calls[p].pc = "persistShard"
  /\ MayRun(p)
  /\ shards' = PersistServerShard(backend, shards, calls[p].accountId,
                                  calls[p].result.serverShard, "none").value
  /\ calls' = [calls EXCEPT ![p].pc = "persistMetadata"]
  /\ UNCHANGED <<backend, now, sessions, metadata, nextSession, nextAccount,
                 nextKey, issued, progress, doneLog, resp, conn>>

\* persistAccountMetadata has written the record: sessionManager.delete and
\* the DONE response
RacePersistMetadata(p) ==
  /\ calls[p].pc = "persistMetadata"
  /\ MayRun(p)
  /\ LET accountId == calls[p].accountId
         sessionId == calls[p].sessionId
         meta == [accountId |-> accountId, address |-> calls[p].result.address,
                  publicKey |-> HexOf(calls[p].result.publicKey), label |-> "main",
                  createdAt |-> IsoOf(now), lastUsedAt |-> NoTimestamp]
     IN
     /\ metadata' = PersistAccountMetadata(backend, metadata, accountId, meta,
                                           "none").value
     /\ sessions' = SessionDelete(sessions, sessionId)
     /\ calls' = [calls EXCEPT ![p] =
                    [NoCall EXCEPT !.pc = "responded", !.sessionId = sessionId,
                                   !.accountId = accountId, !.status = "DONE"]]
     /\ progress' = [progress EXCEPT ![sessionId].steps = @ + 1,
                                     ![sessionId].done = @ + 1]
     /\ doneLog' = MapSet(doneLog, accountId,
                          [sessionId |-> sessionId,
                           address |-> calls[p].result.address,
                           publicKey |-> calls[p].result.publicKey,
                           label |-> "main", createdAt |-> IsoOf(now)])
  /\ UNCHANGED <<backend, now, shards, nextSession, nextAccount, nextKey,
                 issued, resp, conn>>

\* the connection of an answered call is ended
RaceClose(p) ==
  /\ calls[p].pc = "responded"
  /\ MayRun(p)
  /\ calls' = [calls EXCEPT ![p] = NoCall]
  /\ UNCHANGED <<backend, now, sessions, shards, metadata, nextSession,
                 nextAccount, nextKey, issued, progress, doneLog, resp, conn>>

\* a createAccount/start between the steps: it has no await the event loop
\* gets control at
RaceStart ==
  /\ resp = Idle
  /\ \A q \in CallIds : ~MicrotaskPending(calls[q])
  /\ HandleWithin("createAccount/start",
                  Request(0, NoAccountId, MsgAbsent, Undefined, "none"),
                  MaxSessions, MaxDrivenAccounts)

RaceNext ==
  \/ RaceStart
  \/ Close
  \/ \E p \in CallIds : RaceBegin(p)
  \/ \E p \in CallIds : RaceResume(p)
  \/ \E p \in CallIds : RacePersistShard(p)
  \/ \E p \in CallIds : RacePersistMetadata(p)
  \/ \E p \in CallIds : RaceClose(p)

RaceSpec == Init /\ [][RaceNext]_vars

\* ------------------------------------------ the KeyStore, call by call
\* The KeyStore interface called directly, with any accountId, while files of
\* the file backend get damaged between two calls.
KeyStoreAccountIds == DrivenAccountIds \cup { <<>>, <<"..", "/", "etc">> }

KeyStoreOperations ==
  { "persistServerShard", "loadServerShard", "has", "persistAccountMetadata",
    "loadAccountMetadata" }

\* the metadata written for an account and the shard stored for it
MetadataFor(accountId) ==
  [accountId |-> accountId, address |-> AddressOfKey(1),
   publicKey |-> HexOf(PublicKeyOfKey(1)), label |-> "main",
   createdAt |-> IsoOf(0), lastUsedAt |-> NoTimestamp]

\* one call of the KeyStore: the stores it leaves and what it returned or threw
KeyStoreCall(operation, accountId, fault, sh, md, out) ==
  /\ shards' = sh
  /\ metadata' = md
  /\ resp' = [endpoint |-> operation,
              rq |-> Request(0, accountId, MsgAbsent, Undefined, fault),
              pre |-> ServerState,
              success |-> ~out.threw,
              code |-> IF out.threw THEN ErrorCodeOf(out.err) ELSE Undefined,
              message |-> out.err,
              data |-> IF operation = "listAccounts" /\ ~out.threw
                         THEN [NoData EXCEPT !.accounts = out.value]
                         ELSE NoData]
  /\ UNCHANGED <<backend, now, sessions, nextSession, nextAccount, nextKey,
                 issued, progress, doneLog, conn, calls>>

KeyStorePersistServerShard ==
  /\ resp = Idle
  /\ \E accountId \in KeyStoreAccountIds, fault \in FaultsOf({"persistShard"}) :
       LET out == PersistServerShard(backend, shards, accountId, 1, fault) IN
       KeyStoreCall("persistServerShard", accountId, fault,
                    IF out.threw THEN shards ELSE out.value, metadata, out)

KeyStoreLoadServerShard ==
  /\ resp = Idle
  /\ \E accountId \in KeyStoreAccountIds, fault \in FaultsOf({"loadShard"}) :
       KeyStoreCall("loadServerShard", accountId, fault, shards, metadata,
                    LoadServerShard(backend, shards, accountId, fault))

KeyStoreHasAccount ==
  /\ resp = Idle
  /\ \E accountId \in KeyStoreAccountIds :
       KeyStoreCall("has", accountId, "none", shards, metadata,
                    KeyStoreHas(backend, shards, accountId))

KeyStorePersistAccountMetadata ==
  /\ resp = Idle
  /\ \E accountId \in KeyStoreAccountIds, fault \in FaultsOf({"persistMetadata"}) :
       LET out == PersistAccountMetadata(backend, metadata, accountId,
                                         MetadataFor(accountId), fault)
       IN
       KeyStoreCall("persistAccountMetadata", accountId, fault, shards,
                    IF out.threw THEN metadata ELSE out.value, out)

KeyStoreLoadAccountMetadata ==
  /\ resp = Idle
  /\ \E accountId \in KeyStoreAccountIds, fault \in FaultsOf({"loadMetadata"}) :
       KeyStoreCall("loadAccountMetadata", accountId, fault, shards, metadata,
                    LoadAccountMetadata(backend, metadata, accountId, fault))

KeyStoreListAccounts ==
  /\ resp = Idle
  /\ \E fault \in FaultsOf({"readdir", "loadMetadata"}) :
       KeyStoreCall("listAccounts", NoAccountId, fault, shards, metadata,
                    ListAccounts(backend, metadata, fault))

\* a metadata file of the file backend is damaged on disk
DamageMetadataFile ==
  /\ resp = Idle
  /\ backend = "file"
  /\ \E accountId \in DOMAIN metadata :
       /\ metadata[accountId] # CorruptedMetadata
       /\ metadata' = [metadata EXCEPT ![accountId] = CorruptedMetadata]
  /\ UNCHANGED <<backend, now, sessions, shards, nextSession, nextAccount,
                 nextKey, issued, progress, doneLog, resp, conn, calls>>

KeyStoreNext ==
  \/ KeyStorePersistServerShard
  \/ KeyStoreLoadServerShard
  \/ KeyStoreHasAccount
  \/ KeyStorePersistAccountMetadata
  \/ KeyStoreLoadAccountMetadata
  \/ KeyStoreListAccounts
  \/ DamageMetadataFile
  \/ Close

KeyStoreSpec == Init /\ [][KeyStoreNext]_vars

\* --------------------------------------------- the transport, chunk by chunk
\* the chunks of at most n tokens
Chunks(n) == UNION { [1..k -> Tokens] : k \in 1..n }

\* server.on('connection'): the peer opens a connection once the previous one
\* has been ended
Connect ==
  /\ conn.status \in { "none", "ended" }
  /\ conn.connections < MaxConnections
  /\ conn' = NewConn(ServerState, conn.connections + 1)
  /\ UNCHANGED <<backend, now, sessions, shards, metadata, nextSession,
                 nextAccount, nextKey, issued, progress, doneLog, resp, calls>>

\* socket.on('data'): one chunk arrives on a connection not yet ended
Data ==
  /\ conn.status = "open"
  /\ Len(conn.dataBuffer) < MaxBufferTokens
  /\ \E chunk \in Chunks(MaxBufferTokens - Len(conn.dataBuffer)) :
       LET after == OnData(conn, ServerState, chunk, now) IN
       /\ after.st.ns <= MaxSessions + 1
       /\ conn' = after.conn
       /\ sessions' = after.st.ss
       /\ shards' = after.st.sh
       /\ metadata' = after.st.md
       /\ nextSession' = after.st.ns
       /\ nextAccount' = after.st.na
       /\ nextKey' = after.st.nk
  /\ UNCHANGED <<backend, now, issued, progress, doneLog, resp, calls>>

\* setTimeout(() => socket.end(), 10) fires
End ==
  /\ conn.status = "open"
  /\ conn.timer
  /\ conn' = [conn EXCEPT !.status = "ended"]
  /\ UNCHANGED <<backend, now, sessions, shards, metadata, nextSession,
                 nextAccount, nextKey, issued, progress, doneLog, resp, calls>>

TransportNext ==
  \/ Connect
  \/ Data
  \/ End

TransportSpec == Init /\ [][TransportNext]_vars

\* the transport left running: an end timer that was set fires; the peer is
\* free to send its next chunk or to stop sending
TransportLiveSpec == Init /\ [][TransportNext]_vars /\ WF_vars(End)

\* ------------------------------------------------------------- claims
\* The claims are read off the connection being answered: resp.rq is the
\* request, resp.pre the server state it met, resp.success / code / data the
\* response, and the variables hold the state the handler left; now is the time
\* the request was handled at.
Failed(code) == ~resp.success /\ resp.code = code

StoredBefore == resp.rq.sessionId \in DOMAIN resp.pre.ss

SessionBefore == resp.pre.ss[resp.rq.sessionId]

StoresUnchanged ==
  sessions = resp.pre.ss /\ shards = resp.pre.sh /\ metadata = resp.pre.md

\* the protocol a step endpoint serves
ProtocolOf(endpoint) ==
  CASE endpoint = "createAccount/step" -> "DKG"
    [] endpoint = "sign/step" -> "SIGN"
    [] endpoint = "recover/step" -> "RECOVER"

\* a client message decodeMessage accepts: base64 text of a JSON value
Decodable(cm) == cm.present /\ cm.json # "garbage"

\* the account ids generateAccountId has produced so far
CreatedAccountIds == { AccountIdOf(n) : n \in 1..(resp.pre.na - 1) }

\* C1: a createAccount/step, sign/step or recover/step handled at a time
\* now > expiresAt of the session its sessionId was issued for fails with
\* INVALID_SESSION, whether the expired session is still in the store (no
\* cleanup yet) or not.
C1_ExpiredStepIsInvalidSession ==
  (/\ resp.endpoint \in StepEndpoints
   /\ resp.rq.sessionId \in DOMAIN issued
   /\ now > issued[resp.rq.sessionId])
  => Failed("INVALID_SESSION")

\* C1 witness: a step with a decodable message arrives for an expired session
\* that no cleanup has removed; it is refused and the session is dropped.
C1_Witness ==
  /\ resp.endpoint \in StepEndpoints
  /\ resp.rq.sessionId \in DOMAIN issued
  /\ now > issued[resp.rq.sessionId]
  /\ StoredBefore
  /\ ProtocolOf(resp.endpoint) = SessionBefore.protocol
  /\ Decodable(resp.rq.clientMessage)
  /\ Failed("INVALID_SESSION")
  /\ resp.rq.sessionId \notin DOMAIN sessions

\* C2: a step request sent for a stored, unexpired session to the endpoint of
\* another protocol than the session's fails with INVALID_SESSION.
C2_ProtocolMismatchIsInvalidSession ==
  (/\ resp.endpoint \in StepEndpoints
   /\ StoredBefore
   /\ ~Expired(SessionBefore, now)
   /\ ProtocolOf(resp.endpoint) # SessionBefore.protocol)
  => Failed("INVALID_SESSION")

\* C2 witness: sign/step with a decodable message on a stored, unexpired DKG
\* session.
C2_Witness ==
  /\ resp.endpoint = "sign/step"
  /\ StoredBefore
  /\ ~Expired(SessionBefore, now)
  /\ SessionBefore.protocol = "DKG"
  /\ Decodable(resp.rq.clientMessage)
  /\ Failed("INVALID_SESSION")

\* C3: once a step has returned DONE for a session, the session is not in the
\* store, no sessionId has returned DONE twice, and a step carrying that
\* sessionId is either the one that returned DONE (it met the session in the
\* store) or fails with INVALID_SESSION.
C3_DoneIsTerminal ==
  /\ \A sid \in DOMAIN progress :
       progress[sid].done >= 1 =>
         sid \notin DOMAIN sessions /\ progress[sid].done = 1
  /\ (/\ resp.endpoint \in StepEndpoints
      /\ resp.rq.sessionId \in DOMAIN progress
      /\ progress[resp.rq.sessionId].done >= 1)
     => \/ StoredBefore /\ resp.success /\ resp.data.status = "DONE"
        \/ ~StoredBefore /\ Failed("INVALID_SESSION")

\* C3 witness: a step with a decodable message on the endpoint that returned
\* DONE for this sessionId comes after that DONE, and is refused.
C3_Witness ==
  /\ resp.endpoint \in { "createAccount/step", "sign/step" }
  /\ resp.rq.sessionId \in DOMAIN progress
  /\ progress[resp.rq.sessionId].done = 1
  /\ ~StoredBefore
  /\ Decodable(resp.rq.clientMessage)
  /\ Failed("INVALID_SESSION")

\* C4: a step request whose sessionId no start has returned fails with
\* INVALID_SESSION whatever its clientMessage (absent, undecodable, decodable),
\* and leaves the session store and the KeyStore as they were.
C4_UnknownSessionIsInvalidSession ==
  (/\ resp.endpoint \in StepEndpoints
   /\ resp.rq.sessionId \notin DOMAIN issued)
  => Failed("INVALID_SESSION") /\ StoresUnchanged

\* C4 witness: recover/step without clientMessage and with a sessionId never
\* issued, while another session is stored.
C4_Witness ==
  /\ resp.endpoint = "recover/step"
  /\ resp.rq.sessionId \notin DOMAIN issued
  /\ ~resp.rq.clientMessage.present
  /\ resp.pre.ss # EmptyMap
  /\ Failed("INVALID_SESSION")
  /\ StoresUnchanged

\* C5: for an unexpired DKG session, a createAccount/step with a decodable
\* client message (and no storage failure) succeeds; the first and second
\* successful step return CONTINUE with a server message, the third DONE with
\* a non-empty accountId and an address, and DONE comes with no other step.
C5_DkgCompletesInThreeSteps ==
  (/\ resp.endpoint = "createAccount/step"
   /\ StoredBefore
   /\ SessionBefore.protocol = "DKG"
   /\ ~Expired(SessionBefore, now)
   /\ Decodable(resp.rq.clientMessage)
   /\ resp.rq.fault = "none")
  => /\ resp.success
     /\ LET k == progress[resp.rq.sessionId].steps IN
        /\ k \in 1..DkgMaxRounds
        /\ k < DkgMaxRounds =>
             /\ resp.data.status = "CONTINUE"
             /\ resp.data.serverMessage # NoServerMessage
        /\ k = DkgMaxRounds =>
             /\ resp.data.status = "DONE"
             /\ resp.data.accountId \notin { NoAccountId, <<>> }
             /\ resp.data.address # NoAddress

C7_UnknownAccountIsNotFound ==
  (/\ resp.endpoint = "getPublicKey"
   /\ resp.rq.accountId \notin CreatedAccountIds
   /\ ~InvalidAccountIdFormat(resp.rq.accountId))
  => Failed("ACCOUNT_NOT_FOUND") /\ StoresUnchanged

\* C8: for an existing account, the first sign/step on the unexpired session
\* sign/start stored, with a decodable client message, returns DONE with a
\* serverPartial of 65 bytes and the session is gone from the store.
C8_SignCompletesInOneStep ==
  (/\ resp.endpoint = "sign/step"
   /\ StoredBefore
   /\ SessionBefore.protocol = "SIGN"
   /\ SessionBefore.accountId \in DOMAIN resp.pre.sh
   /\ ~Expired(SessionBefore, now)
   /\ Decodable(resp.rq.clientMessage))
  => /\ resp.success
     /\ resp.data.status = "DONE"
     /\ resp.data.serverPartial.len = PartialLength
     /\ resp.rq.sessionId \notin DOMAIN sessions

\* the initiating message of sign/start carries a digest: a JSON object whose
\* messageHash is a non-empty hex string
CarriesDigest(cm) ==
  cm.present /\ cm.json = "object" /\ cm.messageHash \notin { Undefined, "" }

\* C9: sign/start stores a session only when the account exists and the
\* client message carries a digest; otherwise it fails and the session store
\* is unchanged. A stored session has protocol SIGN and the request's
\* accountId.
C9_SignStartStoresOnlyWithDigest ==
  resp.endpoint = "sign/start" =>
    /\ (resp.rq.accountId \in DOMAIN resp.pre.sh
          /\ CarriesDigest(resp.rq.clientMessage))
       \/ (~resp.success /\ sessions = resp.pre.ss)
    /\ resp.success =>
         /\ resp.data.sessionId \in DOMAIN sessions
         /\ sessions[resp.data.sessionId].protocol = "SIGN"
         /\ sessions[resp.data.sessionId].accountId = resp.rq.accountId

\* the proof a recovering client would have to present for a server shard
ProofOf(serverShard) == "proof-" \o ToString(serverShard)

\* C10: recover/start for an existing account with a JSON client message whose
\* proof does not match the stored server shard fails with RECOVERY_FAILED.
C10_WrongProofIsRecoveryFailed ==
  (/\ resp.endpoint = "recover/start"
   /\ resp.rq.accountId \in DOMAIN resp.pre.sh
   /\ resp.rq.fault = "none"
   /\ resp.rq.clientMessage.present
   /\ resp.rq.clientMessage.json = "object"
   /\ resp.rq.clientMessage.data # ProofOf(resp.pre.sh[resp.rq.accountId]))
  => Failed("RECOVERY_FAILED")

\* C11: a recover/start that returns DONE returns the address stored in the
\* account's metadata (the one getPublicKey returns), and a recover/start
\* naming an accountId without a stored shard fails with ACCOUNT_NOT_FOUND.
\* The second half is stated for requests that pass the handler's
\* required-field check and the file backend's format check.
C11_RecoverReturnsStoredAddress ==
  resp.endpoint = "recover/start" =>
    /\ (resp.success /\ resp.data.status = "DONE"
          /\ resp.rq.accountId \in DOMAIN metadata)
       => resp.data.address = metadata[resp.rq.accountId].address
    /\ (/\ resp.rq.accountId \notin DOMAIN resp.pre.sh
        /\ resp.rq.clientMessage.present
        /\ ~InvalidAccountIdFormat(resp.rq.accountId))
       => Failed("ACCOUNT_NOT_FOUND")

\* C12: the terminal branch of createAccount/step draws the accountId, persists
\* the shard, persists the metadata and only then deletes the session. Every
\* DKG session removed by completion has its shard and its metadata stored; a
\* step that removes an unexpired session is a DONE whose account is stored;
\* and when a persistence step fails the accountId is spent, the response is a
\* failure, the session stays and no metadata is written.
C12_PersistBeforeDelete ==
  /\ \A a \in DOMAIN doneLog :
       /\ a \in DOMAIN shards
       /\ a \in DOMAIN metadata
       /\ doneLog[a].sessionId \notin DOMAIN sessions
  /\ (/\ resp.endpoint = "createAccount/step"
      /\ StoredBefore
      /\ ~Expired(SessionBefore, now)
      /\ resp.rq.sessionId \notin DOMAIN sessions)
     => /\ resp.success
        /\ resp.data.status = "DONE"
        /\ resp.data.accountId \in DOMAIN shards
        /\ resp.data.accountId \in DOMAIN metadata
  /\ (resp.endpoint = "createAccount/step" /\ Failed("KEYSTORE_ERROR"))
     => /\ resp.rq.sessionId \in DOMAIN sessions
        /\ nextAccount = resp.pre.na + 1
        /\ metadata = resp.pre.md
        /\ resp.rq.fault = "persistShard" => shards = resp.pre.sh

\* C12 witness: the metadata write of a completing createAccount/step fails
\* after the shard was written; the response is a failure and the session is
\* still stored.
C12_Witness ==
  /\ resp.endpoint = "createAccount/step"
  /\ resp.rq.fault = "persistMetadata"
  /\ Failed("KEYSTORE_ERROR")
  /\ shards # resp.pre.sh
  /\ metadata = resp.pre.md
  /\ resp.rq.sessionId \in DOMAIN sessions

\* C13: account metadata exists for an accountId exactly when a server shard
\* exists for it.
C13_MetadataIffShard == DOMAIN metadata = DOMAIN shards

\* C20: every stored session is kept under its own sessionId with
\* expiresAt = createdAt + 300000, the deadline its start handed out, and no
\* step of the server changes the expiresAt, createdAt, sessionId or protocol
\* of a session that stays in the store.
C20_SessionDeadlineIsFixed ==
  /\ [](\A sid \in DOMAIN sessions :
          /\ sessions[sid].sessionId = sid
          /\ sessions[sid].expiresAt = sessions[sid].createdAt + SessionTimeoutMs
          /\ sid \in DOMAIN issued
          /\ issued[sid] = sessions[sid].expiresAt)
  /\ [][\A sid \in (DOMAIN sessions) \cap (DOMAIN sessions') :
          /\ sessions'[sid].expiresAt = sessions[sid].expiresAt
          /\ sessions'[sid].createdAt = sessions[sid].createdAt
          /\ sessions'[sid].sessionId = sessions[sid].sessionId
          /\ sessions'[sid].protocol = sessions[sid].protocol]_vars

\* C20 witness: a DKG session that has been stepped twice, the second time
\* after the clock moved on from its creation, still has its first deadline.
C20_Witness ==
  \E sid \in DOMAIN sessions :
    /\ sessions[sid].protocol = "DKG"
    /\ sessions[sid].internalState.currentRound = DkgMaxRounds
    /\ now > sessions[sid].createdAt
    /\ resp.endpoint = "createAccount/step"
    /\ resp.rq.sessionId = sid
    /\ resp.success
    /\ sessions[sid].expiresAt = sessions[sid].createdAt + SessionTimeoutMs

\* ----------------------------------------------- claims on the transport
\* The text received on the connection so far is conn.dataBuffer: the
\* concatenation of its chunks.
ParsesAsJson(text) == ~JsonParseBuffer(text).threw

\* a text that more bytes can complete to a JSON value: nothing yet, "{", or
\* "{" and the members, with any whitespace
IsJsonPrefix(text) ==
  LET core == WithoutWhitespace(text) IN
  \/ core = <<>>
  \/ Len(core) = 1 /\ core[1].kind = "{"
  \/ Len(core) = 2 /\ core[1].kind = "{" /\ core[2].kind = "members"

\* C14: on every connection the Dispatcher is invoked at most once and at most
\* one response is written, and once a response is written the transport has
\* scheduled or done the closing of the connection. Stated for the
\* connections on which a request object has been decoded from a text
\* shorter than the maximum buffered size.
C14_OneDispatchOneResponse ==
  (/\ conn.dispatched >= 1
   /\ ~conn.request.isNull
   /\ TextLength(conn.dataBuffer) < MaxBufferedSize) =>
    /\ conn.dispatched <= 1
    /\ Len(conn.written) <= 1
    /\ conn.written # <<>> => conn.timer

\* C15: whatever the chunks a request text came in, the responses written and
\* the server state are those of the same text delivered as one chunk on a
\* connection opened in the same server state. Stated for the texts that are
\* one JSON request object, with or without whitespace around it.
C15_ChunkingIsInvisible ==
  (/\ conn.status # "none"
   /\ ParsesAsJson(conn.dataBuffer)
   /\ ~JsonParseBuffer(conn.dataBuffer).value.isNull) =>
    LET whole == OnData(NewConn(conn.pre, conn.connections), conn.pre,
                        conn.dataBuffer, now)
    IN
    /\ conn.written = whole.conn.written
    /\ ServerState = whole.st

\* C16: on a connection whose buffer never parsed and has grown past the
\* maximum buffered size, exactly one response has been written, an
\* INVALID_REQUEST, and the closing of the connection is scheduled or done.
C16_OversizeYieldsOneInvalidRequest ==
  (/\ conn.status # "none"
   /\ conn.dispatched = 0
   /\ TextLength(conn.dataBuffer) > MaxBufferedSize)
  => /\ conn.written = <<ParseErrorResponse>>
     /\ conn.timer

\* C17: when the buffer is neither a JSON value nor the beginning of one, an
\* INVALID_REQUEST response has been written, whatever the buffer's size.
C17_MalformedIsRefusedAtOnce ==
  (/\ conn.status # "none"
   /\ conn.dispatched = 0
   /\ ~ParsesAsJson(conn.dataBuffer)
   /\ ~IsJsonPrefix(conn.dataBuffer))
  => /\ conn.written # <<>>
     /\ \A i \in 1..Len(conn.written) : conn.written[i].code = "INVALID_REQUEST"

\* C18: while the buffer is an incomplete JSON fragment of at most the maximum
\* buffered size, nothing has been written and the Dispatcher has not been
\* invoked.
C18_FragmentWaitsUpToMaximum ==
  (/\ conn.status # "none"
   /\ ~ParsesAsJson(conn.dataBuffer)
   /\ IsJsonPrefix(conn.dataBuffer)
   /\ TextLength(conn.dataBuffer) <= MaxBufferedSize)
  => /\ conn.written = <<>>
     /\ conn.dispatched = 0

C21_InterleavedSessionsAreIndependent ==
  /\ Cardinality(DOMAIN issued) = nextSession - 1
  /\ (resp.endpoint = "createAccount/start")
     => /\ resp.success
        /\ resp.data.sessionId \notin DOMAIN resp.pre.ss
        /\ progress[resp.data.sessionId].steps = 0
  /\ (resp.endpoint = "createAccount/step" /\ resp.success)
     => LET k == progress[resp.rq.sessionId].steps IN
        /\ k \in 1..DkgMaxRounds
        /\ resp.data.status = (IF k = DkgMaxRounds THEN "DONE" ELSE "CONTINUE")
        /\ resp.data.status = "DONE" =>
             /\ resp.data.accountId \notin (DOMAIN resp.pre.sh) \cup (DOMAIN resp.pre.md)
             /\ \A a \in DOMAIN resp.pre.md :
                  resp.pre.md[a].address # resp.data.address
  /\ (resp.endpoint \in StepEndpoints)
     => \A sid \in (DOMAIN resp.pre.ss) \ { resp.rq.sessionId } :
          sid \in DOMAIN sessions /\ sessions[sid] = resp.pre.ss[sid]

\* C21 witness: the session started first completes second. Its third step
\* returns DONE with the second accountId while the account of the other
\* session, whose steps came in between, is already stored.
C21_Witness ==
  /\ resp.endpoint = "createAccount/step"
  /\ resp.rq.sessionId = 1
  /\ resp.success
  /\ resp.data.status = "DONE"
  /\ resp.data.accountId = AccountIdOf(2)
  /\ DOMAIN progress = { 1, 2 }
  /\ progress[1].steps = DkgMaxRounds
  /\ progress[2].steps = DkgMaxRounds
  /\ DOMAIN doneLog = { AccountIdOf(1), AccountIdOf(2) }
  /\ doneLog[AccountIdOf(1)].sessionId = 2
  /\ doneLog[AccountIdOf(1)].address # resp.data.address

\* the fields of an internalState that hold key bytes
SecretFieldNames == { "fullPrivateKey", "serverShard" }

\* a value that carries key bytes as they are, not a digest, address, public
\* key or signature computed from them
CarriesSecret(value) == (DOMAIN value) \cap SecretFieldNames # {}

InternalStates(ss) == { ss[sid].internalState : sid \in DOMAIN ss }

\* the byte-valued fields of a response
ResponseValues ==
  { resp.data.address, resp.data.publicKey, resp.data.serverMessage,
    resp.data.serverPartial }

\* C22: no response of health, createAccount, getPublicKey, sign or recover,
\* success or failure, carries the shard bytes of an account or the
\* internalState of a session, before or after the request: its data fields
\* are an address, a public key, a server message or a signature, and its
\* error message is text.
C22_ResponsesCarryNoSecret ==
  /\ \A value \in ResponseValues :
       /\ ~CarriesSecret(value)
       /\ value \notin InternalStates(resp.pre.ss) \cup InternalStates(sessions)
  /\ \A i \in 1..Len(resp.message) : resp.message[i] \in STRING
  /\ ~resp.success => resp.data = NoData

\* C22 witness: sign/step returns DONE with a signature made with the stored
\* shard of the account, and the response holds the signature only.
C22_Witness ==
  /\ resp.endpoint = "sign/step"
  /\ resp.success
  /\ resp.data.status = "DONE"
  /\ SessionBefore.accountId \in DOMAIN shards
  /\ SessionBefore.internalState.serverShard = shards[SessionBefore.accountId]
  /\ resp.data.serverPartial.key = shards[SessionBefore.accountId]
  /\ resp.data.serverPartial.len = PartialLength
  /\ ~CarriesSecret(resp.data.serverPartial)

\* the full private key of an account: the key its address is the address of
IsFullKeyOf(key, accountId) ==
  accountId \in DOMAIN metadata /\ AddressOfKey(key) = metadata[accountId].address

\* C23: no KeyStore entry and no session's internalState holds the full
\* private key of an account: the shard stored for an account is not the key
\* of the account's address, and neither is the shard a signing session holds.
C23_ServerNeverHoldsFullKey ==
  /\ \A a \in DOMAIN shards : ~IsFullKeyOf(shards[a], a)
  /\ \A sid \in DOMAIN sessions :
       sessions[sid].protocol = "SIGN" =>
         ~IsFullKeyOf(sessions[sid].internalState.serverShard,
                      sessions[sid].accountId)

\* C24: on every backend, each of persistServerShard, loadServerShard, has,
\* persistAccountMetadata and loadAccountMetadata rejects an accountId that is
\* empty or contains "/", "\" or ".." with INVALID_REQUEST and leaves the
\* store as it was.
C24_KeyStoreRejectsTraversalIds ==
  (/\ resp.endpoint \in KeyStoreOperations
   /\ InvalidAccountIdFormat(resp.rq.accountId))
  => /\ Failed("INVALID_REQUEST")
     /\ shards = resp.pre.sh
     /\ metadata = resp.pre.md

\* the accounts whose metadata loads
LoadableAccounts(be, md) ==
  { a \in DOMAIN md : ~LoadAccountMetadata(be, md, a, "none").threw }

\* C25: when the directory can be read, listAccounts succeeds whatever
\* metadata entries are damaged, and returns the accountId and address of
\* exactly the stored accounts whose metadata loads, one entry each.
C25_ListingSkipsCorruptedEntries ==
  (resp.endpoint = "listAccounts" /\ resp.rq.fault = "none")
  => /\ resp.success
     /\ resp.data.accounts =
          { [accountId |-> a, address |-> resp.pre.md[a].address] :
            a \in LoadableAccounts(resp.pre.backend, resp.pre.md) }
     /\ Cardinality(resp.data.accounts)
          = Cardinality(LoadableAccounts(resp.pre.backend, resp.pre.md))
     /\ StoresUnchanged

\* C25 witness: of two stored metadata files one is damaged; the listing
\* succeeds and holds the entry of the other.
C25_Witness ==
  /\ resp.endpoint = "listAccounts"
  /\ resp.rq.fault = "none"
  /\ DOMAIN resp.pre.md = { AccountIdOf(1), AccountIdOf(2) }
  /\ resp.pre.md[AccountIdOf(1)] = CorruptedMetadata
  /\ resp.pre.md[AccountIdOf(2)] # CorruptedMetadata
  /\ resp.success
  /\ resp.data.accounts =
       { [accountId |-> AccountIdOf(2), address |-> resp.pre.md[AccountIdOf(2)].address] }

\* C26: every createAccount/start request, whatever the state of the server
\* and whatever its body, is answered with a success that carries a sessionId
\* no stored session has and the first server message, and leaves a DKG
\* session with that sessionId at its first round in the session store.
C26_CreateAccountStartAlwaysSucceeds ==
  resp.endpoint = "createAccount/start"
  => /\ resp.success
     /\ resp.data.sessionId \notin DOMAIN resp.pre.ss
     /\ resp.data.serverMessage = [round |-> 1, type |-> "dkg_commitment"]
     /\ resp.data.sessionId \in DOMAIN sessions
     /\ sessions[resp.data.sessionId].protocol = "DKG"
     /\ sessions[resp.data.sessionId].round = 1
     /\ sessions[resp.data.sessionId].internalState.currentRound = 1

\* C27: a createAccount/step or sign/step that reaches stepDKG or stepSign on
\* a stored session of its protocol with a decoded client message whose round
\* tag differs from the round the session expects (internalState.currentRound)
\* fails with MPC_ERROR and leaves the session's round and internalState as
\* they were.
C27_WrongRoundTagIsRejected ==
  ( /\ resp.endpoint \in { "createAccount/step", "sign/step" }
    /\ StoredBefore
    /\ SessionBefore.protocol = ProtocolOf(resp.endpoint)
    /\ Decodable(resp.rq.clientMessage)
    /\ resp.rq.clientMessage.round # SessionBefore.internalState.currentRound )
  => /\ Failed("MPC_ERROR")
     /\ resp.rq.sessionId \in DOMAIN sessions
     /\ sessions[resp.rq.sessionId].round = SessionBefore.round
     /\ sessions[resp.rq.sessionId].internalState = SessionBefore.internalState

\* C28: a createAccount/step or sign/step on a stored, unexpired session of
\* its protocol whose clientMessage is text the Engine's decodeMessage cannot
\* parse fails with MPC_ERROR and leaves the session with the round and
\* internalState it had; the server state is the one the request met, so the
\* same step with any decodable message is answered, and leaves the state, as
\* it would have been without the failed request.
C28_UndecodableStepLeavesSession ==
  ( /\ resp.endpoint \in { "createAccount/step", "sign/step" }
    /\ resp.rq.present
    /\ StoredBefore
    /\ ~Expired(SessionBefore, now)
    /\ SessionBefore.protocol = ProtocolOf(resp.endpoint)
    /\ resp.rq.clientMessage.present
    /\ ~Decodable(resp.rq.clientMessage) )
  => /\ Failed("MPC_ERROR")
     /\ resp.rq.sessionId \in DOMAIN sessions
     /\ sessions[resp.rq.sessionId].round = SessionBefore.round
     /\ sessions[resp.rq.sessionId].internalState = SessionBefore.internalState
     /\ \A cm \in { m \in StepMessages \cup RoundMessages : Decodable(m) } :
          LET again == [resp.rq EXCEPT !.clientMessage = cm] IN
          Route(resp.endpoint, ServerState, again, now)
            = Route(resp.endpoint, resp.pre, again, now)

\* C28 witness: a DKG session that has reached its second round gets a step
\* whose clientMessage is no JSON text, and the request fails with MPC_ERROR.
C28_Witness ==
  /\ resp.endpoint = "createAccount/step"
  /\ StoredBefore
  /\ ~Expired(SessionBefore, now)
  /\ SessionBefore.protocol = "DKG"
  /\ SessionBefore.internalState.currentRound = 2
  /\ resp.rq.clientMessage = MsgGarbage
  /\ Failed("MPC_ERROR")
  /\ sessions[resp.rq.sessionId].internalState.currentRound = 2

\* the terminal round of the DKG session was executed by an earlier request:
\* the shard that round returns for the session's key is in the KeyStore
\* (the request failed after persistServerShard, at persistAccountMetadata)
TerminalRoundConsumed(st, sessionId) ==
  /\ sessionId \in DOMAIN st.ss
  /\ st.ss[sessionId].protocol = "DKG"
  /\ \E a \in DOMAIN st.sh : st.sh[a] = st.ss[sessionId].internalState.fullPrivateKey

\* C29: no round of a DKG session is executed twice. A createAccount/step
\* that returns CONTINUE has executed the round the session was at and moved
\* the session to the next one, so no later step meets that round again; and
\* a createAccount/step on a session whose terminal round an earlier request
\* has executed, that request having failed at KeyStore persistence, fails: it
\* is never answered by a second DONE.
C29_ConsumedRoundIsNotRepeated ==
  /\ ( resp.endpoint = "createAccount/step" /\ resp.success
        /\ resp.data.status = "CONTINUE" )
     => /\ resp.data.serverMessage.round = SessionBefore.internalState.currentRound + 1
        /\ sessions[resp.rq.sessionId].internalState.currentRound
             = SessionBefore.internalState.currentRound + 1
  /\ ( resp.endpoint = "createAccount/step"
        /\ TerminalRoundConsumed(resp.pre, resp.rq.sessionId) )
     => ~resp.success

\* C30: SessionManager.get finds a session exactly when one is stored under
\* the sessionId and the time is not after its expiresAt, the deadline itself
\* included; a get after the deadline reports the session absent and removes
\* it, and only it, from the store; any other get leaves the store as it is.
\* Stated of get on every reachable store at the current time and at each
\* session's deadline and the instant after it, and of the get each step
\* handler starts with: the request is refused as "Session not found or
\* expired" exactly when get returned nothing, and an expired session is gone
\* from the store afterwards while every other session is as it was.
C30_GetIsLazyExpiry ==
  /\ \A sid \in SessionIdInputs :
       \A t \in { now } \cup { sessions[x].expiresAt : x \in DOMAIN sessions }
                \cup { sessions[x].expiresAt + 1 : x \in DOMAIN sessions } :
         LET got == SessionGet(sessions, sid, t)
             stored == sid \in DOMAIN sessions
         IN
         /\ got.found <=> (stored /\ t <= sessions[sid].expiresAt)
         /\ (stored /\ t > sessions[sid].expiresAt)
              => /\ DOMAIN got.store = (DOMAIN sessions) \ { sid }
                 /\ \A x \in DOMAIN got.store : got.store[x] = sessions[x]
         /\ ~(stored /\ t > sessions[sid].expiresAt) => got.store = sessions
  /\ (resp.endpoint \in StepEndpoints /\ resp.rq.present)
     => LET live == StoredBefore /\ now <= SessionBefore.expiresAt IN
        /\ live <=> resp.message # SessionNotFoundMsg
        /\ ~live => Failed("INVALID_SESSION")
        /\ (StoredBefore /\ now > SessionBefore.expiresAt)
             => /\ DOMAIN sessions = (DOMAIN resp.pre.ss) \ { resp.rq.sessionId }
                /\ \A x \in DOMAIN sessions : sessions[x] = resp.pre.ss[x]
        /\ ~StoredBefore => sessions = resp.pre.ss

\* C30 witness: a step names a stored session after its deadline while a
\* second, younger session is stored; the request is refused, the expired
\* session is gone and the younger one is still stored.
C30_Witness ==
  /\ resp.endpoint \in StepEndpoints
  /\ StoredBefore
  /\ now > SessionBefore.expiresAt
  /\ \E x \in DOMAIN resp.pre.ss :
       /\ x # resp.rq.sessionId
       /\ now <= resp.pre.ss[x].expiresAt
       /\ x \in DOMAIN sessions
  /\ resp.rq.sessionId \notin DOMAIN sessions
  /\ Failed("INVALID_SESSION")

\* C31: after a run of SessionManager.cleanup at time now the store holds
\* exactly the sessions stored before it whose expiresAt is now or later,
\* each with the fields it had; a session that has not expired is never
\* removed by cleanup, and nothing but the session store changes.
C31_CleanupKeepsExactlyUnexpired ==
  resp.endpoint = "cleanup"
  => /\ DOMAIN sessions
          = { x \in DOMAIN resp.pre.ss : resp.pre.ss[x].expiresAt >= now }
     /\ \A x \in DOMAIN sessions : sessions[x] = resp.pre.ss[x]
     /\ shards = resp.pre.sh
     /\ metadata = resp.pre.md

\* C31 witness: cleanup runs while one stored session is past its deadline
\* and another has its deadline at this very instant; the first is removed,
\* the second kept.
C31_Witness ==
  /\ resp.endpoint = "cleanup"
  /\ \E x \in DOMAIN resp.pre.ss :
       resp.pre.ss[x].expiresAt < now /\ x \notin DOMAIN sessions
  /\ \E y \in DOMAIN resp.pre.ss :
       resp.pre.ss[y].expiresAt = now /\ y \in DOMAIN sessions

\* C32: the round field of a stored session is the round the Engine expects
\* next for it (internalState.currentRound): 1 when the session is started,
\* one more after every step request answered with CONTINUE, and never less
\* than it was before a request.
C32_RoundFieldTracksEngine ==
  /\ \A sid \in DOMAIN sessions :
       sessions[sid].protocol \in { "DKG", "SIGN" }
         => sessions[sid].round = sessions[sid].internalState.currentRound
  /\ ( resp.endpoint \in { "createAccount/start", "sign/start" } /\ resp.success )
     => sessions[resp.data.sessionId].round = 1
  /\ ( resp.endpoint \in StepEndpoints /\ resp.success
        /\ resp.data.status = "CONTINUE" )
     => sessions[resp.rq.sessionId].round = SessionBefore.round + 1
  /\ \A sid \in (DOMAIN sessions) \cap (DOMAIN resp.pre.ss) :
       resp.endpoint # "none" => sessions[sid].round >= resp.pre.ss[sid].round

\* the signing round of the request ran to its end: the session is stored,
\* unexpired and a SIGN session, the clientMessage decodes, and stepSign
\* returns done with a result
SignReachesCompletion ==
  /\ resp.endpoint = "sign/step"
  /\ resp.rq.present
  /\ StoredBefore
  /\ ~Expired(SessionBefore, now)
  /\ SessionBefore.protocol = "SIGN"
  /\ ~BufferFromBase64(resp.rq.clientMessage).threw
  /\ ~StepSign(SessionBefore, BufferFromBase64(resp.rq.clientMessage).value).threw
  /\ StepSign(SessionBefore, BufferFromBase64(resp.rq.clientMessage).value).value.done

\* C33: a sign/step whose signing round completes is answered with success,
\* status DONE and the serverPartial the Engine computed, and its session is
\* no longer stored, whether the lastUsedAt update succeeds, finds no
\* metadata, or fails at loading or persisting it; when the update fails the
\* metadata stays as it was.
C33_LastUsedUpdateIsBestEffort ==
  SignReachesCompletion
  => /\ resp.success
     /\ resp.data.status = "DONE"
     /\ resp.data.serverPartial
          = StepSign(SessionBefore,
                     BufferFromBase64(resp.rq.clientMessage).value).value.result.serverPartial
     /\ resp.rq.sessionId \notin DOMAIN sessions
     /\ shards = resp.pre.sh
     /\ ( \/ SessionBefore.accountId \notin DOMAIN resp.pre.md
          \/ resp.rq.fault # "none" )
        => metadata = resp.pre.md

\* C33 witness: a signing completes while persisting the account's metadata
\* fails: the response is DONE, the session is gone, lastUsedAt is not set.
C33_Witness ==
  /\ SignReachesCompletion
  /\ resp.rq.fault = "persistMetadata"
  /\ SessionBefore.accountId \in DOMAIN resp.pre.md
  /\ resp.success
  /\ resp.data.status = "DONE"
  /\ resp.data.serverPartial.len = PartialLength
  /\ resp.rq.sessionId \notin DOMAIN sessions
  /\ metadata[SessionBefore.accountId].lastUsedAt = NoTimestamp

\* the last time the bounded clock reaches
LastTick == (MaxNow \div Tick) * Tick

\* C34: while the clock advances and the cleanup timer keeps firing, every
\* stored session leaves the session store: whether it is stepped or
\* abandoned, completes or fails, a session whose deadline the clock passes
\* is eventually not stored any more.
C34_EverySessionIsEventuallyRemoved ==
  \A sid \in 1..MaxSessions :
    (sid \in DOMAIN sessions /\ sessions[sid].expiresAt < LastTick)
      ~> (sid \notin DOMAIN sessions)

\* C34 witness: the cleanup timer removes a session that was stepped but
\* never completed and whose deadline has passed.
C34_Witness ==
  /\ resp.endpoint = "cleanup"
  /\ \E sid \in DOMAIN resp.pre.ss :
       /\ resp.pre.ss[sid].expiresAt < now
       /\ sid \in DOMAIN progress
       /\ progress[sid].steps > 0
       /\ progress[sid].done = 0
       /\ sid \notin DOMAIN sessions

\* the peer has delivered one complete JSON request object
RequestDelivered ==
  conn.status = "open" /\ conn.dispatched > 0 /\ ~conn.request.isNull

\* dataBuffer is an incomplete fragment below the maximum size: the beginning
\* of a request text, not yet the whole of it
FragmentBuffered ==
  /\ conn.status = "open"
  /\ WithoutWhitespace(conn.dataBuffer) # <<>>
  /\ conn.dispatched = 0
  /\ JsonParseBuffer(conn.dataBuffer).threw
  /\ IsJsonPrefix(conn.dataBuffer)
  /\ TextLength(conn.dataBuffer) < MaxBufferedSize

\* C35: every accepted connection is eventually ended by the server: one on
\* which a complete request was delivered, after its response, and one whose
\* buffer holds an incomplete fragment below the maximum size, also when
\* the peer sends nothing more.
C35_EveryConnectionIsClosed ==
  (RequestDelivered \/ FragmentBuffered) ~> (conn.status = "ended")

\* C36: however the createAccount/step requests of several connections on
\* one DKG session interleave at the KeyStore's awaits, the session is
\* answered with DONE at most once, and its key is persisted under at most
\* one accountId: one shard, one metadata record.
C36_OneCompletionPerSession ==
  /\ \A sid \in DOMAIN progress : progress[sid].done <= 1
  /\ \A a, b \in DOMAIN shards : shards[a] = shards[b] => a = b
  /\ \A a, b \in DOMAIN metadata :
       metadata[a].address = metadata[b].address => a = b
  /\ \A a, b \in DOMAIN doneLog :
       doneLog[a].sessionId = doneLog[b].sessionId => a = b

\* the calls on session sid that stand between stepDKG's non-terminal round
\* transition and their CONTINUE response
SteppedCalls(sid) ==
  { p \in CallIds : /\ calls[p].pc = "stepped"
                    /\ calls[p].sessionId = sid
                    /\ ~calls[p].done }

\* C37: with createAccount/step requests of several connections in flight on
\* one session, a handler's lookup, round transition and session update are
\* not interleaved with any other handler (at its update the session store
\* is as its own round transition left it), and no transition is lost: the
\* round the Engine expects is the first round plus the number of
\* non-terminal steps that succeeded.
C37_NoLostRoundTransition ==
  /\ \A p \in CallIds : calls[p].pc = "stepped" => sessions = calls[p].after
  /\ \A sid \in DOMAIN sessions :
       (sessions[sid].protocol = "DKG" /\ sid \in DOMAIN progress)
         => sessions[sid].internalState.currentRound
              = 1 + (progress[sid].steps - progress[sid].done)
                  + Cardinality(SteppedCalls(sid))

\* C37 witness: two connections have each been answered CONTINUE on the same
\* session, neither is closed yet, and the session expects its third round.
C37_Witness ==
  /\ calls[1].status = "CONTINUE"
  /\ calls[2].status = "CONTINUE"
  /\ calls[1].sessionId = calls[2].sessionId
  /\ calls[1].sessionId \in DOMAIN sessions
  /\ sessions[calls[1].sessionId].internalState.currentRound = 3
  /\ progress[calls[1].sessionId].steps = 2

\* the kinds of failure the handlers, the Engine and the KeyStore raise: the
\* word their message begins with
TaxonomyKinds ==
  { "INVALID_REQUEST", "INVALID_SESSION", "ACCOUNT_NOT_FOUND", "KEYSTORE_ERROR",
    "MPC_ERROR", "SIGNING_ERROR", "RECOVERY_FAILED" }

\* C38: a request that fails with a failure of taxonomy kind X is answered
\* with error code X, whatever caller-supplied values (an accountId, a
\* sessionId) the text of the failure's message contains.
C38_CodeIsTheKindOfTheFailure ==
  ( /\ ~resp.success
    /\ resp.message # <<>>
    /\ Head(resp.message) \in TaxonomyKinds )
  => resp.code = Head(resp.message)

\* the request is refused because the session it names belongs to another
\* protocol than the endpoint's
RefusedForProtocol ==
  /\ Failed("INVALID_SESSION")
  /\ StoredBefore
  /\ ~Expired(SessionBefore, now)
  /\ SessionBefore.protocol # ProtocolOf(resp.endpoint)

\* C39: a createAccount/step, sign/step or recover/step refused with
\* INVALID_SESSION for a protocol mismatch, or refused with MPC_ERROR, leaves
\* the stored record of the session it names as it was (round,
\* internalState, accountId, expiresAt and every other field), and the
\* shards and metadata of the KeyStore unchanged.
C39_RefusedStepLeavesSessionAndKeyStore ==
  ( /\ resp.endpoint \in StepEndpoints
    /\ resp.rq.present
    /\ StoredBefore
    /\ RefusedForProtocol \/ Failed("MPC_ERROR") )
  => /\ resp.rq.sessionId \in DOMAIN sessions
     /\ sessions[resp.rq.sessionId] = SessionBefore
     /\ shards = resp.pre.sh
     /\ metadata = resp.pre.md

\* C39 witness: a createAccount/step names a stored signing session while an
\* account is in the KeyStore; it is refused and the signing session is
\* still stored with its shard and digest.
C39_Witness ==
  /\ resp.endpoint = "createAccount/step"
  /\ RefusedForProtocol
  /\ SessionBefore.protocol = "SIGN"
  /\ resp.pre.sh # EmptyMap
  /\ resp.rq.sessionId \in DOMAIN sessions
  /\ sessions[resp.rq.sessionId].internalState = SessionBefore.internalState
  /\ sessions[resp.rq.sessionId].accountId \in DOMAIN shards

====
